---- MODULE Spec2Model ----
(***************************************************************************)
(* fcards (src/main.go): the interaction state machine of the terminal     *)
(* flashcard reviewer (model.Update / model.View) and the layout functions *)
(* it calls.  Go strings are modelled as sequences of bytes (UTF-8).       *)
(***************************************************************************)
EXTENDS Integers, Sequences, FiniteSets, TLC

(***************************************************************************)
(* Bounds of the model.                                                    *)
(***************************************************************************)
\* longest search query, in typed runes, the model lets the user build
MaxQuery == 2

(***************************************************************************)
(* Small helpers over integers and sequences.                              *)
(***************************************************************************)
max(a, b) == IF a > b THEN a ELSE b

SetMin(S) == CHOOSE x \in S : \A y \in S : x <= y

SetMax(S) == CHOOSE x \in S : \A y \in S : x >= y

Range(f) == {f[i] : i \in DOMAIN f}

\* s[from..] as Go's s[from-1:] (1-based here)
Tail2(s, from) == SubSeq(s, from, Len(s))

(***************************************************************************)
(* The strings package, as far as main.go uses it.                         *)
(***************************************************************************)
\* unicode.IsSpace on the ASCII range: \t \n \v \f \r and space
IsSpace(c) == c \in {9, 10, 11, 12, 13, 32}

TrimSpace(s) ==
    LET keep == {i \in 1..Len(s) : ~IsSpace(s[i])}
    IN  IF keep = {} THEN <<>> ELSE SubSeq(s, SetMin(keep), SetMax(keep))

\* strings.TrimRight(s, "\r")
TrimRightCR(s) ==
    LET keep == {i \in 1..Len(s) : s[i] # 13}
    IN  IF keep = {} THEN <<>> ELSE SubSeq(s, 1, SetMax(keep))

HasPrefix(s, p) == Len(s) >= Len(p) /\ SubSeq(s, 1, Len(p)) = p

TrimPrefix(s, p) == IF HasPrefix(s, p) THEN Tail2(s, Len(p) + 1) ELSE s

HasSuffix(s, p) == Len(s) >= Len(p) /\ SubSeq(s, Len(s) - Len(p) + 1, Len(s)) = p

TrimSuffix(s, p) == IF HasSuffix(s, p) THEN SubSeq(s, 1, Len(s) - Len(p)) ELSE s

\* strings.Contains: sub occurs in s as a contiguous run of bytes
Contains(s, sub) ==
    \E i \in 0..(Len(s) - Len(sub)) : SubSeq(s, i + 1, i + Len(sub)) = sub

RECURSIVE FieldsLoop(_, _, _, _)
FieldsLoop(s, i, cur, out) ==
    IF i > Len(s)
    THEN IF cur = <<>> THEN out ELSE Append(out, cur)
    ELSE IF IsSpace(s[i])
         THEN FieldsLoop(s, i + 1, <<>>, IF cur = <<>> THEN out ELSE Append(out, cur))
         ELSE FieldsLoop(s, i + 1, Append(cur, s[i]), out)

\* strings.Fields: the maximal runs of non-space bytes, in order
Fields(s) == FieldsLoop(s, 1, <<>>, <<>>)

\* strings.Split(s, sep) for a one-byte separator: the pieces between the
\* separators, always at least one piece
Split(s, sep) ==
    LET seps == {i \in 1..Len(s) : s[i] = sep}
        n    == Cardinality(seps)
        pos  == [k \in 0..(n + 1) |->
                    IF k = 0 THEN 0
                    ELSE IF k = n + 1 THEN Len(s) + 1
                    ELSE CHOOSE i \in seps : Cardinality({j \in seps : j <= i}) = k]
    IN  [k \in 1..(n + 1) |-> SubSeq(s, pos[k - 1] + 1, pos[k] - 1)]

RECURSIVE Join(_, _)
\* strings.Join(parts, sep) for a one-byte separator
Join(parts, sep) ==
    IF Len(parts) = 0 THEN <<>>
    ELSE IF Len(parts) = 1 THEN parts[1]
    ELSE parts[1] \o <<sep>> \o Join(Tail(parts), sep)

\* strings.Repeat(string(c), n), for a count that is not negative
Repeat(c, n) == [i \in 1..n |-> c]

(***************************************************************************)
(* UTF-8: []rune(text), range over a string, string(runes), WriteRune and  *)
(* the case mapping of ToLower.                                            *)
(***************************************************************************)
\* utf8.EncodeRune: surrogates and values past U+10FFFF become U+FFFD
EncodeRune(r) ==
    IF r < 0 \/ r > 1114111 \/ (r >= 55296 /\ r <= 57343) THEN <<239, 191, 189>>
    ELSE IF r < 128 THEN <<r>>
    ELSE IF r < 2048 THEN <<192 + (r \div 64), 128 + (r % 64)>>
    ELSE IF r < 65536
         THEN <<224 + (r \div 4096), 128 + ((r \div 64) % 64), 128 + (r % 64)>>
         ELSE <<240 + (r \div 262144), 128 + ((r \div 4096) % 64),
                128 + ((r \div 64) % 64), 128 + (r % 64)>>

\* one pass of the loop of string(runes)
encodeStep(rs, out, i) == out \o EncodeRune(rs[i])

RECURSIVE encodeLoop(_, _, _, _)
\* the passes lo..hi of the loop of string(runes), a long range by halves
encodeLoop(rs, st, lo, hi) ==
    IF lo > hi THEN st
    ELSE IF hi - lo < 16 THEN encodeStep(rs, encodeLoop(rs, st, lo, hi - 1), hi)
    ELSE LET mid == (lo + hi) \div 2
         IN  CHOOSE r \in {encodeLoop(rs, x, mid + 1, hi) :
                                x \in {encodeLoop(rs, st, lo, mid)}} : TRUE

\* string(runes)
EncodeRunes(rs) ==
    IF \A i \in 1..Len(rs) : rs[i] >= 0 /\ rs[i] < 128 THEN rs
    ELSE encodeLoop(rs, <<>>, 1, Len(rs))

\* a continuation byte of UTF-8
IsCont(b) == b >= 128 /\ b < 192

\* utf8.DecodeRuneInString(s[i:]): the rune at byte i and its size; an
\* ill-formed byte is U+FFFD of size 1
DecodeAt(s, i) ==
    IF s[i] < 128 THEN [rune |-> s[i], size |-> 1]
    ELSE
    LET n == Len(s) - i + 1
        b == SubSeq(s, i, IF n > 4 THEN i + 3 ELSE Len(s)) \o <<0, 0, 0>>
    IN  IF b[1] >= 194 /\ b[1] < 224 /\ n >= 2 /\ IsCont(b[2])
        THEN [rune |-> (b[1] - 192) * 64 + (b[2] - 128), size |-> 2]
        ELSE IF /\ b[1] >= 224 /\ b[1] < 240 /\ n >= 3
                /\ IsCont(b[2]) /\ IsCont(b[3])
                /\ (b[1] = 224 => b[2] >= 160)
                /\ (b[1] = 237 => b[2] < 160)
        THEN [rune |-> (b[1] - 224) * 4096 + (b[2] - 128) * 64 + (b[3] - 128),
              size |-> 3]
        ELSE IF /\ b[1] >= 240 /\ b[1] < 245 /\ n >= 4
                /\ IsCont(b[2]) /\ IsCont(b[3]) /\ IsCont(b[4])
                /\ (b[1] = 240 => b[2] >= 144)
                /\ (b[1] = 244 => b[2] < 144)
        THEN [rune |-> (b[1] - 240) * 262144 + (b[2] - 128) * 4096
                            + (b[3] - 128) * 64 + (b[4] - 128),
              size |-> 4]
        ELSE [rune |-> 65533, size |-> 1]

\* byte i of s in the loop of []rune(text): a rune starts at st.next
decodeStep(s, st, i) ==
    IF i # st.next THEN st
    ELSE LET d == DecodeAt(s, i)
         IN  [next |-> i + d.size, out |-> Append(st.out, d.rune)]

RECURSIVE decodeLoop(_, _, _, _)
\* the bytes lo..hi of the loop of []rune(text), a long range by halves
decodeLoop(s, st, lo, hi) ==
    IF lo > hi THEN st
    ELSE IF hi - lo < 16 THEN decodeStep(s, decodeLoop(s, st, lo, hi - 1), hi)
    ELSE LET mid == (lo + hi) \div 2
         IN  CHOOSE r \in {decodeLoop(s, x, mid + 1, hi) :
                                x \in {decodeLoop(s, st, lo, mid)}} : TRUE

\* []rune(text), and the runes of range over a string: the bytes themselves
\* when all of them are ASCII
DecodeRunes(s) ==
    IF \A i \in 1..Len(s) : s[i] < 128 THEN s
    ELSE decodeLoop(s, [next |-> 1, out |-> <<>>], 1, Len(s)).out

\* unicode.ToLower on Basic Latin and Latin-1
LowerRune(r) ==
    IF r >= 65 /\ r <= 90 THEN r + 32
    ELSE IF r >= 192 /\ r <= 222 /\ r # 215 THEN r + 32
    ELSE r

\* strings.ToLower
ToLower(s) ==
    LET rs == DecodeRunes(s)
    IN  EncodeRunes([i \in 1..Len(rs) |-> LowerRune(rs[i])])

(***************************************************************************)
(* Text wrapper, answer formatter and card layout (main.go 680-859).       *)
(***************************************************************************)
RECURSIVE wrapLoopEarly(_, _, _, _, _)
\* the loop of wrapLines breaking the line when the word just fits
wrapLoopEarly(words, i, lines, current, width) ==
    IF i > Len(words) THEN <<lines, current>>
    ELSE LET word == words[i]
         IN  IF Len(current) = 0
             THEN wrapLoopEarly(words, i + 1, lines, word, width)
             ELSE IF Len(current) + 1 + Len(word) >= width
                  THEN wrapLoopEarly(words, i + 1, Append(lines, current), word, width)
                  ELSE wrapLoopEarly(words, i + 1, lines, current \o <<32>> \o word, width)

RECURSIVE wrapLoop(_, _, _, _, _)
\* the loop of wrapLines over the words: <<lines, current>> when it ends
wrapLoop(words, i, lines, current, width) ==
    IF i > Len(words) THEN <<lines, current>>
    ELSE LET word == words[i]
         IN  IF Len(current) = 0
             THEN wrapLoop(words, i + 1, lines, word, width)
             ELSE IF Len(current) + 1 + Len(word) > width
                  THEN wrapLoop(words, i + 1, Append(lines, current), word, width)
                  ELSE wrapLoop(words, i + 1, lines, current \o <<32>> \o word, width)

wrapLines(text0, width) ==
    LET text == TrimSpace(text0)
    IN  IF text = <<>> THEN << <<>> >>
        ELSE LET r      == wrapLoop(Fields(text), 1, <<>>, <<>>, width)
                 lines1 == IF Len(r[2]) > 0 THEN Append(r[1], r[2]) ELSE r[1]
             IN  IF Len(lines1) = 0 THEN << <<>> >> ELSE lines1

RECURSIVE expandLoop(_, _, _, _)
\* the loop of expandTabs over the runes; col is never reset
expandLoop(rs, i, col, tabWidth) ==
    IF i > Len(rs) THEN <<>>
    ELSE IF rs[i] = 9
         THEN LET sc0        == tabWidth - (col % tabWidth)
                  spaceCount == IF sc0 = 0 THEN tabWidth ELSE sc0
              IN  Repeat(32, spaceCount) \o expandLoop(rs, i + 1, col + spaceCount, tabWidth)
         ELSE EncodeRune(rs[i]) \o expandLoop(rs, i + 1, col + 1, tabWidth)

expandTabs(s, tabWidth) ==
    IF tabWidth <= 0 \/ ~Contains(s, <<9>>) THEN s
    ELSE expandLoop(DecodeRunes(s), 1, 0, tabWidth)

\* The terminal256 formatter of the highlighter, reduced to one token per
\* line: a non-empty line is wrapped in a colour sequence ESC[1m .. ESC[0m,
\* the text of the code is kept, and the output ends with a newline.
highlightCode(code, lang) ==
    IF code = <<>> THEN <<>>
    ELSE LET ls  == Split(TrimSuffix(code, <<10>>), 10)
             col == [i \in 1..Len(ls) |->
                        IF ls[i] = <<>> THEN <<>>
                        ELSE <<27, 91, 49, 109>> \o ls[i] \o <<27, 91, 48, 109>>]
         IN  Join(col, 10) \o <<10>>

firstPrefix == <<45, 32>>

nextPrefix == <<32, 32>>

fence == <<96, 96, 96>>

\* the lines a closing fence emits, written without their prefix
emitCodeBare(st, highlightedLines) ==
    [st EXCEPT
        !.inCode = FALSE,
        !.out = st.out \o highlightedLines,
        !.used = st.used \/ Len(highlightedLines) > 0]

\* the lines a closing fence emits: out and used after the inner loop
emitCode(st, highlightedLines) ==
    [st EXCEPT
        !.inCode = FALSE,
        !.out = st.out \o
                [i \in 1..Len(highlightedLines) |->
                    (IF ~st.used /\ i = 1 THEN firstPrefix ELSE nextPrefix)
                        \o highlightedLines[i]],
        !.used = st.used \/ Len(highlightedLines) > 0]

\* the lines a plain line emits: out and used after the inner loop
emitWrapped(st, wrapped) ==
    [st EXCEPT
        !.out = st.out \o
                [i \in 1..Len(wrapped) |->
                    (IF ~st.used /\ i = 1 THEN firstPrefix ELSE nextPrefix)
                        \o wrapped[i]],
        !.used = st.used \/ Len(wrapped) > 0]

\* one iteration of the loop of formatAnswerLines over the raw lines
formatStep(st, raw, width) ==
    LET line    == TrimRightCR(raw)
        trimmed == TrimSpace(line)
    IN  IF HasPrefix(trimmed, fence) /\ ~st.inCode
        THEN [st EXCEPT !.inCode = TRUE,
                        !.codeLang = TrimSpace(TrimPrefix(trimmed, fence)),
                        !.codeLines = <<>>]
        ELSE IF HasPrefix(trimmed, fence) /\ st.inCode
        THEN LET code        == expandTabs(Join(st.codeLines, 10), 4)
                 highlighted == highlightCode(code, st.codeLang)
             IN  emitCode(st, Split(TrimSuffix(highlighted, <<10>>), 10))
        ELSE IF st.inCode
        THEN [st EXCEPT !.codeLines = Append(st.codeLines, line)]
        ELSE IF TrimSpace(line) = <<>>
        THEN IF st.used THEN [st EXCEPT !.out = Append(st.out, <<>>)] ELSE st
        ELSE LET prefix == IF ~st.used THEN firstPrefix ELSE nextPrefix
                 space0 == width - Len(prefix)
                 space  == IF space0 < 1 THEN 1 ELSE space0
             IN  emitWrapped(st, wrapLines(line, space))

RECURSIVE formatLoop(_, _, _, _)
formatLoop(st, lines, i, width) ==
    IF i > Len(lines) THEN st
    ELSE formatLoop(formatStep(st, lines[i], width), lines, i + 1, width)

formatAnswerLines(answer, width) ==
    formatLoop([out |-> <<>>, inCode |-> FALSE, used |-> FALSE,
                codeLang |-> <<>>, codeLines |-> <<>>],
               Split(answer, 10), 1, width).out

RECURSIVE formatAnswersOneBullet(_, _, _)
\* the range loop with the bullet kept for the first answer only
formatAnswersOneBullet(answers, i, width) ==
    IF i > Len(answers) THEN <<>>
    ELSE LET f == formatAnswerLines(answers[i], width)
         IN  [k \in 1..Len(f) |->
                IF i > 1 /\ k = 1 THEN nextPrefix \o Tail2(f[k], 3) ELSE f[k]]
                \o formatAnswersOneBullet(answers, i + 1, width)

RECURSIVE formatAnswers(_, _, _)
\* the range loop of buildCardContentLines over q.Answers
formatAnswers(answers, i, width) ==
    IF i > Len(answers) THEN <<>>
    ELSE formatAnswerLines(answers[i], width) \o formatAnswers(answers, i + 1, width)

\* buildCardContentLines without the blank line that ends each block
buildCardContentLinesNoBlank(q, showAns, width) ==
    LET head == << <<81, 85, 69, 83, 84, 73, 79, 78>> >>
                    \o wrapLines(q.Text, width)
    IN  IF showAns
        THEN head \o << <<65, 78, 83, 87, 69, 82, 83>> >>
                  \o formatAnswers(q.Answers, 1, width)
        ELSE head

buildCardContentLines(q, showAns, width) ==
    LET head == << <<81, 85, 69, 83, 84, 73, 79, 78>> >>          \* "QUESTION"
                    \o wrapLines(q.Text, width) \o << <<>> >>
    IN  IF showAns
        THEN head \o << <<65, 78, 83, 87, 69, 82, 83>> >>          \* "ANSWERS"
                  \o (IF Len(q.Answers) = 0
                      \* "(no answers stored)"
                      THEN << <<40, 110, 111, 32, 97, 110, 115, 119, 101, 114,
                                115, 32, 115, 116, 111, 114, 101, 100, 41>> >>
                      ELSE formatAnswers(q.Answers, 1, width))
                  \o << <<>> >>
        ELSE head

visibleContentLines(total, h) ==
    IF total = 0 THEN 0
    ELSE IF h <= 0 THEN total
    ELSE LET v0 == h - 5
             v1 == IF v0 < 1 THEN 1 ELSE v0
         IN  IF v1 > total THEN total ELSE v1

cardWidth(termWidth) ==
    LET w0 == IF termWidth > 0 THEN termWidth \div 2 ELSE 64
    IN  IF w0 < 34 THEN 34 ELSE w0

cardMaxScroll(q, showAns, termWidth, termHeight) ==
    LET inner        == cardWidth(termWidth) - 2
        contentLines == buildCardContentLines(q, showAns, inner - 2)
        visible      == visibleContentLines(Len(contentLines), termHeight)
    IN  IF visible = 0 \/ Len(contentLines) <= visible THEN 0
        ELSE Len(contentLines) - visible

\* clampScroll without the upper limit
clampScrollNoUpper(offset, maxOff) ==
    IF offset < 0 THEN 0 ELSE offset

clampScroll(offset, maxOff) ==
    IF offset < 0 THEN 0
    ELSE IF offset > maxOff THEN maxOff
    ELSE offset

(***************************************************************************)
(* Category browser helpers (main.go 657-678).                             *)
(***************************************************************************)
RECURSIVE filterLoop(_, _, _)
filterLoop(gs, i, needle) ==
    IF i > Len(gs) THEN <<>>
    ELSE (IF Contains(ToLower(gs[i].Type), needle) THEN <<gs[i]>> ELSE <<>>)
            \o filterLoop(gs, i + 1, needle)

\* filterGroups comparing the labels as they are spelled
filterGroupsExact(gs, query) ==
    LET trimmed == TrimSpace(query)
    IN  IF trimmed = <<>> THEN gs
        ELSE SelectSeq(gs, LAMBDA g : Contains(g.Type, trimmed))

filterGroups(gs, query) ==
    LET trimmed == TrimSpace(query)
    IN  IF trimmed = <<>> THEN gs
        ELSE filterLoop(gs, 1, ToLower(trimmed))

\* dropLastRune cutting one byte instead of one rune
dropLastByte(text) ==
    IF text = <<>> THEN text ELSE SubSeq(text, 1, Len(text) - 1)

dropLastRune(text) ==
    IF text = <<>> THEN text
    ELSE LET runes == DecodeRunes(text)
         IN  EncodeRunes(SubSeq(runes, 1, Len(runes) - 1))

(***************************************************************************)
(* The store: the questions table joined with answers (main.go 304-351).   *)
(* Three cards in the categories "general", "Go" and "" (no category).     *)
(***************************************************************************)
tGeneral == <<103, 101, 110, 101, 114, 97, 108>>                  \* "general"

tGo == <<71, 111>>                                                \* "Go"

DB ==
    << [ID |-> 1, Type |-> tGeneral,
        \* "What is Go's concurrency model built on?"
        Text |-> <<87, 104, 97, 116, 32, 105, 115, 32, 71, 111, 39, 115, 32, 99,
                   111, 110, 99, 117, 114, 114, 101, 110, 99, 121, 32, 109, 111,
                   100, 101, 108, 32, 98, 117, 105, 108, 116, 32, 111, 110, 63>>,
        \* "Goroutines", "Channels"
        Answers |-> << <<71, 111, 114, 111, 117, 116, 105, 110, 101, 115>>,
                       <<67, 104, 97, 110, 110, 101, 108, 115>> >>],
       [ID |-> 2, Type |-> tGo,
        \* "Print a value in Go."
        Text |-> <<80, 114, 105, 110, 116, 32, 97, 32, 118, 97, 108, 117, 101,
                   32, 105, 110, 32, 71, 111, 46>>,
        \* "```go\n\tfmt.Println(1)\n```"
        Answers |-> << <<96, 96, 96, 103, 111, 10, 9, 102, 109, 116, 46, 80, 114,
                         105, 110, 116, 108, 110, 40, 49, 41, 10, 96, 96, 96>> >>],
       [ID |-> 3, Type |-> <<>>,
        \* "Name a Git command to list branches."
        Text |-> <<78, 97, 109, 101, 32, 97, 32, 71, 105, 116, 32, 99, 111, 109,
                   109, 97, 110, 100, 32, 116, 111, 32, 108, 105, 115, 116, 32,
                   98, 114, 97, 110, 99, 104, 101, 115, 46>>,
        Answers |-> <<>>] >>

\* -type values the program is started with
TypeFilters == {<<>>, tGeneral}

RECURSIVE selectType(_, _, _)
selectType(rows, i, t) ==
    IF i > Len(rows) THEN <<>>
    ELSE (IF rows[i].Type = t THEN <<rows[i]>> ELSE <<>>) \o selectType(rows, i + 1, t)

\* the rows of loadQuestions, ordered by id: WHERE q.type = ? only when the
\* trimmed filter is not empty
loadQuestions(rows, typeFilter) ==
    IF TrimSpace(typeFilter) # <<>> THEN selectType(rows, 1, typeFilter) ELSE rows

\* memcmp order of two byte strings (SQLite BINARY collation)
LessBytes(a, b) ==
    \E i \in 1..(Len(b)) :
        /\ \A j \in 1..(i - 1) : j <= Len(a) /\ a[j] = b[j]
        /\ (i > Len(a) \/ (i - 1 < Len(a) /\ a[i] < b[i]))

RECURSIVE sortTypes(_)
sortTypes(ts) ==
    IF ts = {} THEN <<>>
    ELSE LET least == CHOOSE t \in ts : \A u \in ts \ {t} : LessBytes(t, u)
         IN  <<least>> \o sortTypes(ts \ {least})

\* SELECT q.type, COUNT(1) FROM questions q GROUP BY q.type ORDER BY q.type
loadTypeGroups(rows) ==
    LET types  == {rows[i].Type : i \in 1..Len(rows)}
        sorted == sortTypes(types)
    IN  [i \in 1..Len(sorted) |->
            [Type |-> sorted[i],
             Count |-> Cardinality({j \in 1..Len(rows) : rows[j].Type = sorted[i]})]]

\* every order rng.Shuffle can leave the slice in
shuffleQuestions(qs) ==
    IF Len(qs) < 2 THEN {qs}
    ELSE LET n == Len(qs)
         IN  {[i \in 1..n |-> qs[p[i]]] :
                p \in {f \in [1..n -> 1..n] : \A a, b \in 1..n : f[a] = f[b] => a = b}}

(***************************************************************************)
(* Messages of the event loop: tea.WindowSizeMsg and tea.KeyMsg.           *)
(***************************************************************************)
modeCards == 0

modeGroup == 1

NoErr == "nil"

LoadErr == "load failed"

\* terminal sizes the resize events carry
Widths == {0, 120}

Heights == {0, 6, 8}

\* key types without runes, and the name tea.KeyMsg.String() gives each
keyNames ==
    [KeyEnter     |-> <<101, 110, 116, 101, 114>>,                 \* "enter"
     KeyEsc       |-> <<101, 115, 99>>,                            \* "esc"
     KeyBackspace |-> <<98, 97, 99, 107, 115, 112, 97, 99, 101>>,  \* "backspace"
     KeyCtrlH     |-> <<99, 116, 114, 108, 43, 104>>,              \* "ctrl+h"
     KeyUp        |-> <<117, 112>>,                                \* "up"
     KeyDown      |-> <<100, 111, 119, 110>>,                      \* "down"
     KeyCtrlC     |-> <<99, 116, 114, 108, 43, 99>>,               \* "ctrl+c"
     KeyTab       |-> <<116, 97, 98>>]                             \* "tab"

SpecialKeys == {[Type |-> t, Runes |-> <<>>, Alt |-> FALSE] : t \in DOMAIN keyNames}

RuneKey(r, alt) == [Type |-> "KeyRunes", Runes |-> <<r>>, Alt |-> alt]

\* q k K j J / l L h H, and x as a key that is bound to nothing
CommandRunes == {113, 107, 75, 106, 74, 47, 108, 76, 104, 72, 120}

\* the runes typed into the search box: G o e-acute, and q with Alt held
SearchKeys == {RuneKey(71, FALSE), RuneKey(111, FALSE), RuneKey(233, FALSE),
               RuneKey(113, TRUE)}

Keys == SpecialKeys \cup {RuneKey(r, FALSE) : r \in CommandRunes} \cup SearchKeys

\* tea.KeyMsg.String()
KeyString(msg) ==
    (IF msg.Alt THEN <<97, 108, 116, 43>> ELSE <<>>)               \* "alt+"
        \o (IF msg.Type = "KeyRunes" THEN EncodeRunes(msg.Runes)
            ELSE keyNames[msg.Type])

(***************************************************************************)
(* The session state: the fields of type model (main.go 396-410), and      *)
(* running, which is FALSE once Update has returned tea.Quit.              *)
(***************************************************************************)
VARIABLES mode, questions, index, showAnswers, scrollOffset, width, height,
          groups, groupIndex, groupQuery, groupSearch, err, running,
          call, ret, schema, runner, journal

vars == <<mode, questions, index, showAnswers, scrollOffset, width, height,
          groups, groupIndex, groupQuery, groupSearch, err, running, call, ret,
          schema, runner, journal>>

\* call and ret hold one call of a layout function and what it returned;
\* the event loop leaves them alone
NoCall == [fn |-> "none"]

NoReturn == [done |-> FALSE]

(***************************************************************************)
(* runMigrations (main.go 139-215).  schema is the database file: whether  *)
(* schema_migrations exists, the versions it records and the scripts whose *)
(* effects are committed.  runner is the process that runs the migrations, *)
(* journal what the processes so far did to the database.  A transaction   *)
(* is SQLite's: its writes reach the file at Commit, all of them or none,  *)
(* and are dropped by Rollback and when the process ends.                  *)
(***************************************************************************)
\* the most program starts
MaxStarts == 3

sqlSuffix == <<46, 115, 113, 108>>                                  \* ".sql"

\* the embedded directory: "1.sql", "10.sql" and "2.sql" hold statements,
\* "3.sql" holds white space only, "d.sql" is a directory, "n.txt" no script
file1 == [name |-> <<49>> \o sqlSuffix, isDir |-> FALSE, body |-> <<97, 59>>]

file10 == [name |-> <<49, 48>> \o sqlSuffix, isDir |-> FALSE, body |-> <<98, 59>>]

file2 == [name |-> <<50>> \o sqlSuffix, isDir |-> FALSE, body |-> <<99, 59>>]

file3 == [name |-> <<51>> \o sqlSuffix, isDir |-> FALSE, body |-> <<32, 10>>]

dirD == [name |-> <<100>> \o sqlSuffix, isDir |-> TRUE, body |-> <<>>]

fileN == [name |-> <<110, 46, 116, 120, 116>>, isDir |-> FALSE, body |-> <<120>>]

\* the orders ReadDir may list the directory in
Listings ==
    {<<file1, file10, file2, file3, dirD, fileN>>,
     <<fileN, dirD, file3, file2, file10, file1>>,
     <<file2, fileN, file1, dirD, file10, file3>>}

RECURSIVE sqlFiles(_, _)
\* lines 152-161: the names of the entries from i on that are files and
\* end in ".sql"
sqlFiles(entries, i) ==
    IF i > Len(entries) THEN <<>>
    ELSE IF entries[i].isDir THEN sqlFiles(entries, i + 1)
    ELSE IF HasSuffix(entries[i].name, sqlSuffix)
         THEN <<entries[i].name>> \o sqlFiles(entries, i + 1)
         ELSE sqlFiles(entries, i + 1)

RECURSIVE insertString(_, _)
\* name put in its place in an ascending list
insertString(sorted, name) ==
    IF sorted = <<>> THEN <<name>>
    ELSE IF LessBytes(name, Head(sorted)) THEN <<name>> \o sorted
    ELSE <<Head(sorted)>> \o insertString(Tail(sorted), name)

RECURSIVE sortStringsLoop(_, _)
sortStringsLoop(files, i) ==
    IF i = 0 THEN <<>> ELSE insertString(sortStringsLoop(files, i - 1), files[i])

\* the files left in the order ReadDir listed them
sortStringsNone(files) == files

\* sort.Strings(files): ascending byte order
sortStrings(files) == sortStringsLoop(files, Len(files))

\* migrationsFS.ReadFile("migrations/" + name)
readFile(entries, name) ==
    (CHOOSE e \in Range(entries) : e.name = name /\ ~e.isDir).body

\* no transaction is open
NoTx == [open |-> FALSE, effects |-> {}, versions |-> {}]

\* the database file before the first start
Fresh == [table |-> FALSE, versions |-> {}, effects |-> {}]

\* the names of the scripts that hold statements
Scripts == {file1.name, file10.name, file2.name}

\* the database once every script is applied, and no runner: the state the
\* user interface runs in
Migrated == [table |-> TRUE, versions |-> Scripts, effects |-> Scripts]

NoRunner == [pc |-> "idle"]

\* tx.Rollback() writing what the script did to the file all the same
txRollbackKeepsEffects(s, tx) ==
    [s EXCEPT !.effects = @ \cup tx.effects]

\* tx.Rollback(): the file keeps nothing of the transaction
txRollback(s, tx) == s

\* tx.Commit(): the file takes the writes of the transaction together
txCommit(s, tx) ==
    [s EXCEPT !.effects = @ \cup tx.effects, !.versions = @ \cup tx.versions]

\* the variables of the user interface and of the layout calls
uiVars == <<mode, questions, index, showAnswers, scrollOffset, width, height,
            groups, groupIndex, groupQuery, groupSearch, err, running, call, ret>>

\* a process: main calls runMigrations right after openDB
process(entries, n) ==
    [pc |-> "create", fs |-> entries, files |-> <<>>, applied |-> {}, i |-> 0,
     tx |-> NoTx, start |-> n]

\* the first start, on a new database file
InitMigrate ==
    /\ schema = Fresh
    /\ runner \in {process(entries, 1) : entries \in Listings}
    /\ journal = <<>>
    /\ mode = modeGroup /\ questions = <<>> /\ index = 0 /\ showAnswers = FALSE
    /\ scrollOffset = 0 /\ width = 64 /\ height = 0 /\ groups = <<>>
    /\ groupIndex = 0 /\ groupQuery = <<>> /\ groupSearch = FALSE /\ err = NoErr
    /\ running = FALSE /\ call = NoCall /\ ret = NoReturn

\* a return with an error: main exits, an open transaction is gone
ReturnErr ==
    runner' = [runner EXCEPT !.pc = "failed", !.tx = NoTx]

\* the script the loop is at
currentName == runner.files[runner.i + 1]

\* what the process did to the script, in the journal
Journal(op) ==
    journal' = Append(journal, [op |-> op, name |-> currentName,
                                start |-> runner.start])

\* lines 140-145: CREATE TABLE IF NOT EXISTS schema_migrations
CreateTable ==
    /\ runner.pc = "create"
    /\ \/ /\ schema' = [schema EXCEPT !.table = TRUE]
          /\ runner' = [runner EXCEPT !.pc = "readdir"]
       \/ ReturnErr /\ UNCHANGED schema
    /\ UNCHANGED <<journal, uiVars>>

\* lines 147-162: ReadDir, the filter and the sort
ReadDir ==
    /\ runner.pc = "readdir"
    /\ runner' = [runner EXCEPT !.pc = "query",
                                !.files = sortStrings(sqlFiles(runner.fs, 1))]
    /\ UNCHANGED <<schema, journal, uiVars>>

\* lines 164-179: SELECT version FROM schema_migrations into applied
QueryApplied ==
    /\ runner.pc = "query"
    /\ \/ runner' = [runner EXCEPT !.pc = "loop", !.applied = schema.versions]
       \/ ReturnErr
    /\ UNCHANGED <<schema, journal, uiVars>>

\* lines 181-191: the head of the loop skips an applied script and a script
\* of white space only; after the last script comes ensureQuestionTypeColumn
LoopHead ==
    /\ runner.pc = "loop"
    /\ IF runner.i >= Len(runner.files)
       THEN runner' = [runner EXCEPT !.pc = "ensure"]
       ELSE IF currentName \in runner.applied
       THEN runner' = [runner EXCEPT !.i = @ + 1]
       ELSE IF TrimSpace(readFile(runner.fs, currentName)) = <<>>
       THEN runner' = [runner EXCEPT !.i = @ + 1]
       ELSE runner' = [runner EXCEPT !.pc = "begin"]
    /\ UNCHANGED <<schema, journal, uiVars>>

\* lines 193-196: db.Begin()
Begin ==
    /\ runner.pc = "begin"
    /\ \/ runner' = [runner EXCEPT !.pc = "exec", !.tx = [NoTx EXCEPT !.open = TRUE]]
       \/ ReturnErr
    /\ UNCHANGED <<schema, journal, uiVars>>

\* lines 197-200: tx.Exec(body), rolled back when a statement fails
ExecBody ==
    /\ runner.pc = "exec"
    /\ \/ /\ runner' = [runner EXCEPT !.pc = "insert", !.tx.effects = @ \cup {currentName}]
          /\ Journal("exec")
          /\ UNCHANGED schema
       \/ /\ schema' = txRollback(schema, [runner.tx EXCEPT !.effects = @ \cup {currentName}])
          /\ ReturnErr
          /\ Journal("fail")
    /\ UNCHANGED uiVars

\* lines 201-208: INSERT INTO schema_migrations, rolled back when it fails
InsertVersion ==
    /\ runner.pc = "insert"
    /\ \/ /\ currentName \notin schema.versions
          /\ runner' = [runner EXCEPT !.pc = "commit", !.tx.versions = @ \cup {currentName}]
          /\ UNCHANGED <<schema, journal>>
       \/ /\ schema' = txRollback(schema, runner.tx)
          /\ ReturnErr
          /\ Journal("rollback")
    /\ UNCHANGED uiVars

\* lines 209-211: tx.Commit()
Commit ==
    /\ runner.pc = "commit"
    /\ \/ /\ schema' = txCommit(schema, runner.tx)
          /\ runner' = [runner EXCEPT !.pc = "loop", !.i = @ + 1, !.tx = NoTx]
          /\ Journal("commit")
       \/ /\ schema' = txRollback(schema, runner.tx)
          /\ ReturnErr
          /\ Journal("rollback")
    /\ UNCHANGED uiVars

\* line 214: ensureQuestionTypeColumn, and runMigrations returns
EnsureColumn ==
    /\ runner.pc = "ensure"
    /\ \/ runner' = [runner EXCEPT !.pc = "done"]
       \/ ReturnErr
    /\ UNCHANGED <<schema, journal, uiVars>>

\* the next start of the program, after the process ended or was killed:
\* what an open transaction wrote never reaches the file
Restart ==
    /\ runner.start < MaxStarts
    /\ runner' = process(runner.fs, runner.start + 1)
    /\ schema' = txRollback(schema, runner.tx)
    /\ UNCHANGED <<journal, uiVars>>

NextMigrate ==
    \/ CreateTable
    \/ ReadDir
    \/ QueryApplied
    \/ LoopHead
    \/ Begin
    \/ ExecBody
    \/ InsertVersion
    \/ Commit
    \/ EnsureColumn
    \/ Restart

SpecMigrate == InitMigrate /\ [][NextMigrate]_vars

\* the receiver m of Update and View
M == [mode |-> mode, questions |-> questions, index |-> index,
      showAnswers |-> showAnswers, scrollOffset |-> scrollOffset,
      width |-> width, height |-> height, groups |-> groups,
      groupIndex |-> groupIndex, groupQuery |-> groupQuery,
      groupSearch |-> groupSearch, err |-> err]

newCardsModel(qs) ==
    [mode |-> modeCards, questions |-> qs, index |-> 0, showAnswers |-> FALSE,
     scrollOffset |-> 0, width |-> 64, height |-> 0, groups |-> <<>>,
     groupIndex |-> 0, groupQuery |-> <<>>, groupSearch |-> FALSE, err |-> NoErr]

newGroupModel(gs) ==
    [mode |-> modeGroup, questions |-> <<>>, index |-> 0, showAnswers |-> FALSE,
     scrollOffset |-> 0, width |-> 64, height |-> 0, groups |-> gs,
     groupIndex |-> 0, groupQuery |-> <<>>, groupSearch |-> FALSE, err |-> NoErr]

\* main: -group type starts the browser, otherwise the cards of -type,
\* shuffled, and the program exits before the UI when there are none
InitModels ==
    {newGroupModel(loadTypeGroups(DB))}
        \cup UNION {{newCardsModel(qs) : qs \in shuffleQuestions(loadQuestions(DB, f))} :
                        f \in {g \in TypeFilters : Len(loadQuestions(DB, g)) # 0}}

Init ==
    /\ \E m \in InitModels :
        /\ mode = m.mode /\ questions = m.questions /\ index = m.index
        /\ showAnswers = m.showAnswers /\ scrollOffset = m.scrollOffset
        /\ width = m.width /\ height = m.height /\ groups = m.groups
        /\ groupIndex = m.groupIndex /\ groupQuery = m.groupQuery
        /\ groupSearch = m.groupSearch /\ err = m.err
    /\ running = TRUE
    /\ call = NoCall /\ ret = NoReturn
    /\ schema = Migrated /\ runner = NoRunner /\ journal = <<>>

(***************************************************************************)
(* model.Update (main.go 433-532).  Each part returns the model and the    *)
(* command of the return statement it ends in.                             *)
(***************************************************************************)
\* lines 522-531: the clamp of groupIndex before the last return
finalClamp(m) ==
    IF m.mode = modeGroup
    THEN LET filtered == filterGroups(m.groups, m.groupQuery)
             g1 == IF m.groupIndex >= Len(filtered) THEN Len(filtered) - 1
                   ELSE m.groupIndex
             g2 == IF g1 < 0 THEN 0 ELSE g1
         IN  [m EXCEPT !.groupIndex = g2]
    ELSE m

\* case tea.WindowSizeMsg clamping against the dimensions it replaces
updateWindowSizeOldDims(m0, w, h) ==
    LET m == [m0 EXCEPT !.width = w, !.height = h]
    IN  IF m.mode = modeCards /\ m.index < Len(m.questions)
        THEN [m EXCEPT !.scrollOffset =
                clampScroll(m.scrollOffset,
                    cardMaxScroll(m.questions[m.index + 1], m.showAnswers,
                                  m0.width, m0.height))]
        ELSE m

\* case tea.WindowSizeMsg
updateWindowSize(m0, w, h) ==
    LET m == [m0 EXCEPT !.width = w, !.height = h]
    IN  IF m.mode = modeCards /\ m.index < Len(m.questions)
        THEN [m EXCEPT !.scrollOffset =
                clampScroll(m.scrollOffset,
                    cardMaxScroll(m.questions[m.index + 1], m.showAnswers,
                                  m.width, m.height))]
        ELSE m

\* the keys of the search box without the quit test of lines 444-446
updateSearchKeyNoQuit(m, msg) ==
    [cmd |-> "nil",
     m |-> CASE msg.Type = "KeyEsc" -> [m EXCEPT !.groupSearch = FALSE]
             [] msg.Type = "KeyEnter" -> [m EXCEPT !.groupSearch = FALSE]
             [] msg.Type \in {"KeyBackspace", "KeyCtrlH"} ->
                   [m EXCEPT !.groupQuery = dropLastRune(m.groupQuery)]
             [] msg.Type = "KeyRunes" ->
                   [m EXCEPT !.groupQuery = m.groupQuery \o EncodeRunes(msg.Runes)]
             [] OTHER -> m]

\* case tea.KeyMsg, lines 443-458: the keys of the search box
updateSearchKey(m, msg) ==
    IF KeyString(msg) = <<99, 116, 114, 108, 43, 99>> \/ KeyString(msg) = <<113>>
    THEN [m |-> m, cmd |-> "Quit"]
    ELSE [cmd |-> "nil",
          m |-> CASE msg.Type = "KeyEsc" -> [m EXCEPT !.groupSearch = FALSE]
                  [] msg.Type = "KeyEnter" -> [m EXCEPT !.groupSearch = FALSE]
                  [] msg.Type \in {"KeyBackspace", "KeyCtrlH"} ->
                        [m EXCEPT !.groupQuery = dropLastRune(m.groupQuery)]
                  [] msg.Type = "KeyRunes" ->
                        [m EXCEPT !.groupQuery = m.groupQuery \o EncodeRunes(msg.Runes)]
                  [] OTHER -> m]

\* case "enter" in the browser, switching to the cards although the load
\* failed
enterGroupSwitchesOnError(m) ==
    LET filtered == filterGroups(m.groups, m.groupQuery)
    IN  IF m.groupIndex >= 0 /\ m.groupIndex < Len(filtered)
        THEN LET selected == filtered[m.groupIndex + 1].Type
             IN  {[m |-> [m EXCEPT !.err = LoadErr, !.mode = modeCards], cmd |-> "nil"]}
                 \cup {[m |-> finalClamp([m EXCEPT !.mode = modeCards,
                                                   !.questions = qs,
                                                   !.index = 0,
                                                   !.showAnswers = FALSE,
                                                   !.scrollOffset = 0]),
                        cmd |-> "nil"] :
                       qs \in shuffleQuestions(loadQuestions(DB, selected))}
        ELSE {[m |-> finalClamp(m), cmd |-> "nil"]}

\* case "enter" in the browser, lines 488-503: one result for the failed
\* load and one for every order the shuffle can give
enterGroup(m) ==
    LET filtered == filterGroups(m.groups, m.groupQuery)
    IN  IF m.groupIndex >= 0 /\ m.groupIndex < Len(filtered)
        THEN LET selected == filtered[m.groupIndex + 1].Type
             IN  {[m |-> [m EXCEPT !.err = LoadErr], cmd |-> "nil"]}
                 \cup {[m |-> finalClamp([m EXCEPT !.mode = modeCards,
                                                   !.questions = qs,
                                                   !.index = 0,
                                                   !.showAnswers = FALSE,
                                                   !.scrollOffset = 0]),
                        cmd |-> "nil"] :
                       qs \in shuffleQuestions(loadQuestions(DB, selected))}
        ELSE {[m |-> finalClamp(m), cmd |-> "nil"]}

\* case "up", "k", "K"
caseUp(m) ==
    IF m.mode = modeCards /\ m.index < Len(m.questions)
    THEN IF m.scrollOffset > 0
         THEN [m EXCEPT !.scrollOffset = m.scrollOffset - 1] ELSE m
    ELSE IF m.mode = modeGroup /\ m.groupIndex > 0
         THEN [m EXCEPT !.groupIndex = m.groupIndex - 1] ELSE m

\* case "down", "j", "J"
caseDown(m) ==
    IF m.mode = modeCards /\ m.index < Len(m.questions)
    THEN IF m.scrollOffset < cardMaxScroll(m.questions[m.index + 1],
                                m.showAnswers, m.width, m.height)
         THEN [m EXCEPT !.scrollOffset = m.scrollOffset + 1] ELSE m
    ELSE IF m.mode = modeGroup
         THEN IF m.groupIndex < Len(filterGroups(m.groups, m.groupQuery)) - 1
              THEN [m EXCEPT !.groupIndex = m.groupIndex + 1] ELSE m
         ELSE m

\* case "/" without the reset of the query
caseSlashKeepsQuery(m) ==
    IF m.mode = modeGroup THEN [m EXCEPT !.groupSearch = TRUE] ELSE m

\* case "/"
caseSlash(m) ==
    IF m.mode = modeGroup
    THEN [m EXCEPT !.groupSearch = TRUE, !.groupQuery = <<>>] ELSE m

\* case "enter" without the reset of the scroll offset
caseEnterCardsKeepsScroll(m) ==
    IF m.index < Len(m.questions)
    THEN [m EXCEPT !.showAnswers = ~m.showAnswers]
    ELSE m

\* case "enter" outside the browser, lines 504-507
caseEnterCards(m) ==
    IF m.index < Len(m.questions)
    THEN [m EXCEPT !.showAnswers = ~m.showAnswers, !.scrollOffset = 0]
    ELSE m

\* case "l", "L" without the reset of revealed and scroll
caseNextKeepsCardState(m) ==
    IF m.mode = modeCards /\ m.index < Len(m.questions)
    THEN [m EXCEPT !.index = m.index + 1]
    ELSE m

\* case "l", "L"
caseNext(m) ==
    IF m.mode = modeCards /\ m.index < Len(m.questions)
    THEN [m EXCEPT !.index = m.index + 1, !.showAnswers = FALSE, !.scrollOffset = 0]
    ELSE m

\* case "h", "H"
\* case "h", "H" without the test of the first card
casePrevBelowFirst(m) ==
    IF m.mode = modeCards
    THEN [m EXCEPT !.index = m.index - 1, !.showAnswers = FALSE, !.scrollOffset = 0]
    ELSE m

casePrev(m) ==
    IF m.mode = modeCards /\ m.index > 0
    THEN [m EXCEPT !.index = m.index - 1, !.showAnswers = FALSE, !.scrollOffset = 0]
    ELSE m

\* the switch with a key that goes back: "esc" reopens the browser
switchKeyEscReopens(m, key) ==
    CASE key \in {<<117, 112>>, <<107>>, <<75>>} -> caseUp(m)
      [] key \in {<<100, 111, 119, 110>>, <<106>>, <<74>>} -> caseDown(m)
      [] key = <<47>> -> caseSlash(m)
      [] key = <<101, 110, 116, 101, 114>> -> caseEnterCards(m)
      [] key \in {<<108>>, <<76>>} -> caseNext(m)
      [] key \in {<<104>>, <<72>>} -> casePrev(m)
      [] key = <<101, 115, 99>> -> [m EXCEPT !.mode = modeGroup]
      [] OTHER -> m

\* the switch on msg.String(), lines 459-520, without quit and the
\* browser's enter
switchKey(m, key) ==
    CASE key \in {<<117, 112>>, <<107>>, <<75>>} -> caseUp(m)             \* "up", "k", "K"
      [] key \in {<<100, 111, 119, 110>>, <<106>>, <<74>>} -> caseDown(m) \* "down", "j", "J"
      [] key = <<47>> -> caseSlash(m)                                      \* "/"
      [] key = <<101, 110, 116, 101, 114>> -> caseEnterCards(m)            \* "enter"
      [] key \in {<<108>>, <<76>>} -> caseNext(m)                          \* "l", "L"
      [] key \in {<<104>>, <<72>>} -> casePrev(m)                          \* "h", "H"
      [] OTHER -> m

\* the results of Update(msg) for a key message
updateKey(m, msg) ==
    IF m.mode = modeGroup /\ m.groupSearch
    THEN {updateSearchKey(m, msg)}
    ELSE LET key == KeyString(msg)
         IN  IF key \in {<<99, 116, 114, 108, 43, 99>>, <<113>>}   \* "ctrl+c", "q"
             THEN {[m |-> m, cmd |-> "Quit"]}
             ELSE IF key = <<101, 110, 116, 101, 114>> /\ m.mode = modeGroup
             THEN enterGroup(m)
             ELSE {[m |-> finalClamp(switchKey(m, key)), cmd |-> "nil"]}

\* the two keys Update answers with tea.Quit: "ctrl+c" and "q"
IsQuitKey(msg) == KeyString(msg) \in {<<99, 116, 114, 108, 43, 99>>, <<113>>}

\* the branch of model.View (main.go 534-553) that draws the frame
ViewBranch(m) ==
    IF m.err # NoErr THEN "error"
    ELSE IF m.mode = modeGroup THEN "group list"
    ELSE IF m.index >= Len(m.questions) THEN "no more questions"
    ELSE "card"

(***************************************************************************)
(* Frame rendering: model.View, renderCard, renderGroupList, padToHeight   *)
(* and the visual-width helpers (main.go 534-655, 861-990).                *)
(***************************************************************************)
\* 'ESC [38;5;208m'
orange ==
    <<27, 91, 51, 56, 59, 53, 59, 50, 48, 56, 109>>

\* 'ESC [0m'
reset ==
    <<27, 91, 48, 109>>

\* 'fcards'
sFcards ==
    <<102, 99, 97, 114, 100, 115>>

\* 'fcards — group by type'
sGroupTitle ==
    <<102, 99, 97, 114, 100, 115, 32, 226, 128, 148, 32, 103, 114, 111,
      117, 112, 32, 98, 121, 32, 116, 121, 112, 101>>

\* 'Search: '
sSearch ==
    <<83, 101, 97, 114, 99, 104, 58, 32>>

\* 'No types found.\n'
sNoTypes ==
    <<78, 111, 32, 116, 121, 112, 101, 115, 32, 102, 111, 117, 110,
      100, 46, 10>>

\* 'q to quit\n'
sQuitHint ==
    <<113, 32, 116, 111, 32, 113, 117, 105, 116, 10>>

\* '(none)'
sNone ==
    <<40, 110, 111, 110, 101, 41>>

\* ' - '
sDash ==
    <<32, 45, 32>>

\* '> '
sSelected ==
    <<62, 32>>

\* '  '
sUnselected ==
    <<32, 32>>

\* 'Type to search  •  Enter/Esc: done  •  q: quit'
sSearchFooter ==
    <<84, 121, 112, 101, 32, 116, 111, 32, 115, 101, 97, 114, 99, 104,
      32, 32, 226, 128, 162, 32, 32, 69, 110, 116, 101, 114, 47, 69,
      115, 99, 58, 32, 100, 111, 110, 101, 32, 32, 226, 128, 162, 32,
      32, 113, 58, 32, 113, 117, 105, 116>>

\* 'J/K: move  •  Enter: open  •  /: search  •  q: quit'
sListFooter ==
    <<74, 47, 75, 58, 32, 109, 111, 118, 101, 32, 32, 226, 128, 162,
      32, 32, 69, 110, 116, 101, 114, 58, 32, 111, 112, 101, 110, 32,
      32, 226, 128, 162, 32, 32, 47, 58, 32, 115, 101, 97, 114, 99,
      104, 32, 32, 226, 128, 162, 32, 32, 113, 58, 32, 113, 117, 105,
      116>>

\* 'Enter: flip  •  H/L: next card'
sFlipFirst ==
    <<69, 110, 116, 101, 114, 58, 32, 102, 108, 105, 112, 32, 32, 226,
      128, 162, 32, 32, 72, 47, 76, 58, 32, 110, 101, 120, 116, 32, 99,
      97, 114, 100>>

\* 'H/L: next card  •  Enter: flip'
sFlipLast ==
    <<72, 47, 76, 58, 32, 110, 101, 120, 116, 32, 99, 97, 114, 100, 32,
      32, 226, 128, 162, 32, 32, 69, 110, 116, 101, 114, 58, 32, 102,
      108, 105, 112>>

\* 'Up/Down: scroll  •  '
sScrollHint ==
    <<85, 112, 47, 68, 111, 119, 110, 58, 32, 115, 99, 114, 111, 108,
      108, 32, 32, 226, 128, 162, 32, 32>>

\* 'Error: '
sError ==
    <<69, 114, 114, 111, 114, 58, 32>>

\* 'No more questions in this session.'
sNoMore ==
    <<78, 111, 32, 109, 111, 114, 101, 32, 113, 117, 101, 115, 116,
      105, 111, 110, 115, 32, 105, 110, 32, 116, 104, 105, 115, 32,
      115, 101, 115, 115, 105, 111, 110, 46>>

\* 'load failed'
sLoadFailed ==
    <<108, 111, 97, 100, 32, 102, 97, 105, 108, 101, 100>>

RECURSIVE Concat(_)
\* the bytes a strings.Builder holds after writing the pieces in order
Concat(parts) ==
    IF parts = <<>> THEN <<>> ELSE Head(parts) \o Concat(Tail(parts))

RECURSIVE Itoa(_)
\* the %d verb of fmt.Sprintf
Itoa(n) ==
    IF n < 0 THEN <<45>> \o Itoa(-n)
    ELSE IF n < 10 THEN <<48 + n>>
    ELSE Itoa(n \div 10) \o <<48 + (n % 10)>>

\* the %*s verb of fmt.Sprintf: s right-justified in w columns, and
\* left-justified in -w columns when w is negative
PadLeft(s, w) ==
    LET n == Len(DecodeRunes(s))
    IN  IF w >= 0 THEN Repeat(32, w - n) \o s ELSE s \o Repeat(32, (-w) - n)

\* one pass of the loop of visualWidth over the runes
visualStep(rs, st, i) ==
    IF rs[i] = 27 THEN [st EXCEPT !.inEscape = TRUE]
    ELSE IF st.inEscape THEN [st EXCEPT !.inEscape = (rs[i] # 109)]
    ELSE [st EXCEPT !.width = @ + 1]

RECURSIVE visualLoop(_, _, _, _)
\* the passes lo..hi of the loop of visualWidth, a long range by halves
visualLoop(rs, st, lo, hi) ==
    IF lo > hi THEN st
    ELSE IF hi - lo < 16 THEN visualStep(rs, visualLoop(rs, st, lo, hi - 1), hi)
    ELSE LET mid == (lo + hi) \div 2
         IN  CHOOSE r \in {visualLoop(rs, x, mid + 1, hi) :
                                x \in {visualLoop(rs, st, lo, mid)}} : TRUE

visualWidth(text) ==
    LET rs == DecodeRunes(text)
    IN  visualLoop(rs, [inEscape |-> FALSE, width |-> 0], 1, Len(rs)).width

\* one pass of the loop of truncateToVisualWidth; done after the break
truncStep(rs, st, i, maxWidth) ==
    IF st.done THEN st
    ELSE IF rs[i] = 27
    THEN [st EXCEPT !.inEscape = TRUE, !.result = @ \o EncodeRune(rs[i])]
    ELSE IF st.inEscape
    THEN [st EXCEPT !.inEscape = (rs[i] # 109), !.result = @ \o EncodeRune(rs[i])]
    ELSE IF st.width >= maxWidth THEN [st EXCEPT !.done = TRUE]
    ELSE [st EXCEPT !.result = @ \o EncodeRune(rs[i]), !.width = @ + 1]

RECURSIVE truncLoop(_, _, _, _, _)
\* the passes lo..hi of the loop of truncateToVisualWidth, a long range by halves
truncLoop(rs, st, lo, hi, maxWidth) ==
    IF lo > hi THEN st
    ELSE IF hi - lo < 16 THEN truncStep(rs, truncLoop(rs, st, lo, hi - 1, maxWidth), hi, maxWidth)
    ELSE LET mid == (lo + hi) \div 2
         IN  CHOOSE r \in {truncLoop(rs, x, mid + 1, hi, maxWidth) :
                                x \in {truncLoop(rs, st, lo, mid, maxWidth)}} : TRUE

truncateToVisualWidth(text, maxWidth) ==
    LET rs == DecodeRunes(text)
    IN  truncLoop(rs, [inEscape |-> FALSE, width |-> 0, result |-> <<>>,
                       done |-> FALSE], 1, Len(rs), maxWidth).result

padRight(text, w) ==
    LET visWidth == visualWidth(text)
    IN  IF visWidth >= w THEN truncateToVisualWidth(text, w)
        ELSE text \o Repeat(32, w - visWidth)

\* the closure line of renderCard
cardLine(text, inner) ==
    orange \o <<124>> \o reset \o <<32>> \o padRight(text, inner - 2)
        \o <<32>> \o orange \o <<124>> \o reset

\* the locals of renderCard before it writes: lines 556-578
cardLayout(q, showAns, w, h, scrollOffset0) ==
    LET inner        == w - 2
        contentLines == buildCardContentLines(q, showAns, inner - 2)
        visibleLines == visibleContentLines(Len(contentLines), h)
        maxScroll    == max(0, Len(contentLines) - visibleLines)
        start        == clampScroll(scrollOffset0, maxScroll)
        end0         == start + visibleLines
        controls0    == IF showAns THEN sFlipLast ELSE sFlipFirst
    IN  [inner        |-> inner,
         contentLines |-> contentLines,
         visibleLines |-> visibleLines,
         start        |-> start,
         end          |-> IF end0 > Len(contentLines) THEN Len(contentLines) ELSE end0,
         controls     |-> IF Len(contentLines) > visibleLines
                          THEN sScrollHint \o controls0 ELSE controls0]

\* fmt.Sprintf("fcards%*s", inner-8, fmt.Sprintf("%d/%d", pos, total))
cardHeader(pos, total, inner) ==
    sFcards \o PadLeft(Itoa(pos) \o <<47>> \o Itoa(total), inner - 8)

renderCard(q, showAns, pos, total, w, h, scrollOffset0) ==
    LET L      == cardLayout(q, showAns, w, h, scrollOffset0)
        border == <<43>> \o Repeat(45, L.inner) \o <<43>>
        header == cardHeader(pos, total, L.inner)
        rows   == [i \in 1..(L.end - L.start) |->
                      cardLine(L.contentLines[L.start + i], L.inner) \o <<10>>]
    IN  orange \o border \o <<10>>
            \o cardLine(header, L.inner) \o <<10>>
            \o orange \o border \o <<10>> \o reset
            \o Concat(rows)
            \o cardLine(L.controls, L.inner) \o <<10>>
            \o orange \o border \o reset

\* the window of renderGroupList starting one row too far up
groupWindowBehind(n, selected, h) ==
    LET maxLines == IF h - 4 < 6 THEN 6 ELSE h - 4
        start    == IF selected >= maxLines THEN selected - maxLines ELSE 0
        end0     == start + maxLines
    IN  [maxLines |-> maxLines, start |-> start,
         end |-> IF end0 > n THEN n ELSE end0]

\* the window of renderGroupList over the filtered groups: lines 619-630
groupWindow(n, selected, h) ==
    LET maxLines == IF h - 4 < 6 THEN 6 ELSE h - 4
        start    == IF selected >= maxLines THEN selected - maxLines + 1 ELSE 0
        end0     == start + maxLines
    IN  [maxLines |-> maxLines, start |-> start,
         end |-> IF end0 > n THEN n ELSE end0]

\* one pass of the loop of renderGroupList: the row of filtered[i]
groupRow(g, i, selected) ==
    LET name0 == TrimSpace(g.Type)
        name  == IF name0 = <<>> THEN sNone ELSE name0
        line  == name \o sDash \o Itoa(g.Count)
    IN  (IF i = selected THEN orange \o sSelected \o line \o reset
         ELSE sUnselected \o line) \o <<10>>

renderGroupList(gs, selected, w, h, query, searching) ==
    LET filtered == filterGroups(gs, query)
        head     == orange \o sGroupTitle \o reset \o <<10, 10>>
                        \o (IF searching \/ TrimSpace(query) # <<>>
                            THEN sSearch \o query \o <<10, 10>> ELSE <<>>)
        W        == groupWindow(Len(filtered), selected, h)
    IN  IF Len(filtered) = 0 THEN head \o sNoTypes \o sQuitHint
        ELSE head
                \o Concat([k \in 1..(W.end - W.start) |->
                            groupRow(filtered[W.start + k], W.start + k - 1, selected)])
                \o <<10>>
                \o (IF searching THEN sSearchFooter ELSE sListFooter)

\* padToHeight without the truncation
padToHeightPadOnly(view, h) ==
    IF h <= 0 \/ view = <<>> THEN view
    ELSE LET viewLines == Split(view, 10)
         IN  Join(viewLines \o [i \in 1..(h - Len(viewLines)) |-> Repeat(32, 80)], 10)

padToHeight(view, h) ==
    IF h <= 0 \/ view = <<>> THEN view
    ELSE LET viewLines == Split(view, 10)
         IN  IF Len(viewLines) >= h THEN Join(SubSeq(viewLines, 1, h), 10)
             ELSE Join(viewLines \o [i \in 1..(h - Len(viewLines)) |-> Repeat(32, 80)],
                       10)

\* err.Error() of the error a failed load stores
ErrorString(e) == IF e = LoadErr THEN sLoadFailed ELSE <<>>

\* the text model.View hands to padToHeight
viewText(m) ==
    IF m.err # NoErr
    THEN sError \o ErrorString(m.err) \o <<10>> \o sQuitHint
    ELSE IF m.mode = modeGroup
    THEN renderGroupList(m.groups, m.groupIndex, m.width, m.height,
                         m.groupQuery, m.groupSearch) \o <<10>>
    ELSE IF m.index >= Len(m.questions)
    THEN orange \o sNoMore \o reset \o <<10>> \o sQuitHint
    ELSE LET w         == cardWidth(m.width)
             q         == m.questions[m.index + 1]
             maxScroll == cardMaxScroll(q, m.showAnswers, m.width, m.height)
             scroll    == clampScroll(m.scrollOffset, maxScroll)
         IN  renderCard(q, m.showAnswers, m.index + 1, Len(m.questions),
                        w, m.height, scroll) \o <<10>>

\* model.View: the frame handed to the terminal
View(m) == padToHeight(viewText(m), m.height)

(***************************************************************************)
(* The run-time checks of the index, slice and Repeat expressions of       *)
(* Update and View: each operator gives the expressions that would panic.  *)
(***************************************************************************)
\* a[i] passes the bounds check
IndexOK(i, n) == 0 <= i /\ i < n

\* a[lo:hi] passes the bounds check
SliceOK(lo, hi, n) == 0 <= lo /\ lo <= hi /\ hi <= n

\* the count padRight hands to strings.Repeat, 0 when it truncates instead
padRightCount(text, w) ==
    LET visWidth == visualWidth(text)
    IN  IF visWidth >= w THEN 0 ELSE w - visWidth

renderCardFaults(q, showAns, pos, total, w, h, scrollOffset0) ==
    LET L     == cardLayout(q, showAns, w, h, scrollOffset0)
        n     == Len(L.contentLines)
        shown == IF SliceOK(L.start, L.end, n)
                 THEN {L.contentLines[i] : i \in (L.start + 1)..L.end} ELSE {}
    IN  (IF L.inner >= 0 THEN {} ELSE {"strings.Repeat(-, inner)"})
            \cup (IF SliceOK(L.start, L.end, n) THEN {} ELSE {"contentLines[start:end]"})
            \cup (IF \A text \in shown \cup {cardHeader(pos, total, L.inner), L.controls} :
                        padRightCount(text, L.inner - 2) >= 0
                  THEN {} ELSE {"strings.Repeat( , width-visWidth)"})

renderGroupListFaults(gs, selected, h, query) ==
    LET filtered == filterGroups(gs, query)
        W        == groupWindow(Len(filtered), selected, h)
    IN  IF Len(filtered) = 0 THEN {}
        ELSE IF \A i \in W.start..(W.end - 1) : IndexOK(i, Len(filtered))
        THEN {} ELSE {"filtered[i]"}

padToHeightFaults(view, h) ==
    IF h <= 0 \/ view = <<>> THEN {}
    ELSE LET n == Len(Split(view, 10))
         IN  IF n >= h /\ ~SliceOK(0, h, n) THEN {"viewLines[:height]"} ELSE {}

\* the expressions of model.View that panic on m
ViewFaults(m) ==
    IF m.err # NoErr \/ m.mode = modeGroup \/ m.index >= Len(m.questions)
    THEN LET f == IF m.err = NoErr /\ m.mode = modeGroup
                  THEN renderGroupListFaults(m.groups, m.groupIndex, m.height,
                                             m.groupQuery)
                  ELSE {}
         IN  IF f # {} THEN f ELSE padToHeightFaults(View(m), m.height)
    ELSE IF ~IndexOK(m.index, Len(m.questions)) THEN {"m.questions[m.index]"}
    ELSE LET q == m.questions[m.index + 1]
             f == renderCardFaults(q, m.showAnswers, m.index + 1, Len(m.questions),
                                   cardWidth(m.width), m.height,
                                   clampScroll(m.scrollOffset,
                                        cardMaxScroll(q, m.showAnswers,
                                                      m.width, m.height)))
         IN  IF f # {} THEN f ELSE padToHeightFaults(View(m), m.height)

\* the expressions of Update(tea.WindowSizeMsg) that panic on m
ResizeFaults(m, w, h) ==
    IF m.mode = modeCards /\ m.index < Len(m.questions)
            /\ ~IndexOK(m.index, Len(m.questions))
    THEN {"m.questions[m.index]"} ELSE {}

\* the expressions of Update(tea.KeyMsg) that panic on m
KeyFaults(m, msg) ==
    LET key      == KeyString(msg)
        filtered == filterGroups(m.groups, m.groupQuery)
        runes    == DecodeRunes(m.groupQuery)
    IN  IF m.mode = modeGroup /\ m.groupSearch
        THEN IF /\ ~IsQuitKey(msg)
                /\ msg.Type \in {"KeyBackspace", "KeyCtrlH"}
                /\ m.groupQuery # <<>>
                /\ ~SliceOK(0, Len(runes) - 1, Len(runes))
             THEN {"runes[:len(runes)-1]"} ELSE {}
        ELSE IF /\ key \in {<<100, 111, 119, 110>>, <<106>>, <<74>>}   \* "down", "j", "J"
                /\ m.mode = modeCards /\ m.index < Len(m.questions)
                /\ ~IndexOK(m.index, Len(m.questions))
        THEN {"m.questions[m.index]"}
        ELSE IF /\ key = <<101, 110, 116, 101, 114>>                  \* "enter"
                /\ m.mode = modeGroup
                /\ m.groupIndex >= 0 /\ m.groupIndex < Len(filtered)
                /\ ~IndexOK(m.groupIndex, Len(filtered))
        THEN {"filtered[m.groupIndex]"}
        ELSE {}

\* the event loop takes the model Update returns and stops on tea.Quit
Install(r) ==
    /\ mode' = r.m.mode /\ questions' = r.m.questions /\ index' = r.m.index
    /\ showAnswers' = r.m.showAnswers /\ scrollOffset' = r.m.scrollOffset
    /\ width' = r.m.width /\ height' = r.m.height /\ groups' = r.m.groups
    /\ groupIndex' = r.m.groupIndex /\ groupQuery' = r.m.groupQuery
    /\ groupSearch' = r.m.groupSearch /\ err' = r.m.err
    /\ running' = (r.cmd # "Quit")
    /\ UNCHANGED <<call, ret, schema, runner, journal>>

\* Update(tea.WindowSizeMsg{w, h})
WindowSize(w, h) ==
    /\ running
    /\ \E r \in {[m |-> finalClamp(updateWindowSize(M, w, h)), cmd |-> "nil"]} :
            Install(r)

\* Update(tea.KeyMsg); the search box takes runes up to MaxQuery of them
KeyPress(msg) ==
    /\ running
    /\ (mode = modeGroup /\ groupSearch /\ msg.Type = "KeyRunes" /\ ~IsQuitKey(msg))
            => msg \in SearchKeys /\ Len(DecodeRunes(groupQuery)) < MaxQuery
    /\ \E r \in updateKey(M, msg) : Install(r)

Next ==
    \/ \E w \in Widths, h \in Heights : WindowSize(w, h)
    \/ \E msg \in Keys : KeyPress(msg)

Spec == Init /\ [][Next]_vars

(***************************************************************************)
(* Vocabulary of the properties.                                           *)
(***************************************************************************)
Key(t) == [Type |-> t, Runes |-> <<>>, Alt |-> FALSE]

InBrowser == mode = modeGroup

InSearch == mode = modeGroup /\ groupSearch

InReview == mode = modeCards

\* the groups matching the current query
Filtered == filterGroups(groups, groupQuery)

\* the maxScroll of the card on screen, from the current fields
CurrentMaxScroll == cardMaxScroll(questions[index + 1], showAnswers, width, height)

\* the cards of the store whose category label is t
CardsOfCategory(t) == {DB[i] : i \in {j \in 1..Len(DB) : DB[j].Type = t}}

(***************************************************************************)
(* C1.  In category-browser mode the selected index lies in                *)
(* [0, max(0, len(filtered)-1)] after every event, the events handled      *)
(* while the search box is active included.                                *)
(* Update returns at line 457 for every key of the search box, before the  *)
(* clamp of lines 522-531, so a query typed with the last row selected     *)
(* leaves the index past the end of the filtered list.                     *)
(***************************************************************************)
C1_SelectionInRange ==
    InBrowser => groupIndex >= 0 /\ groupIndex <= max(0, Len(Filtered) - 1)

(***************************************************************************)
(* C2.  In the browser with search inactive, no stored error and a         *)
(* non-empty filtered list, an Enter press whose load succeeds loads the   *)
(* questions of the category at the selected row and moves to card review  *)
(* with index 0, answers hidden and scroll 0.                              *)
(* The row of the empty category loads every card of the store, and a row  *)
(* index left out of range by C1 loads nothing.                            *)
(***************************************************************************)
C2_EnterLoadsSelectedCategory ==
    [][(/\ InBrowser /\ ~groupSearch /\ err = NoErr /\ Len(Filtered) > 0
        /\ KeyPress(Key("KeyEnter")) /\ err' = NoErr)
        => /\ groupIndex < Len(Filtered)
           /\ mode' = modeCards /\ index' = 0 /\ showAnswers' = FALSE
           /\ scrollOffset' = 0
           /\ Range(questions') = CardsOfCategory(Filtered[groupIndex + 1].Type)
           /\ Len(questions') = Cardinality(CardsOfCategory(Filtered[groupIndex + 1].Type))
      ]_vars

(***************************************************************************)
(* C3.  In card review with a card on screen (index < len(questions)) the  *)
(* scroll offset lies in [0, maxScroll] after every event, maxScroll being *)
(* that of the current card, revealed flag, width and height.              *)
(***************************************************************************)
C3_ScrollInRange ==
    (InReview /\ index < Len(questions))
        => scrollOffset >= 0 /\ scrollOffset <= CurrentMaxScroll

\* a resize to 8 rows has cut a larger offset down to the new maxScroll
C3_Witness ==
    /\ InReview /\ index < Len(questions) /\ height = 8
    /\ scrollOffset > 0 /\ scrollOffset = CurrentMaxScroll

(***************************************************************************)
(* C4.  A card navigation that moves the index (l/L, h/H) hides the        *)
(* answers and sets scroll to 0; scroll keys and resize events change      *)
(* neither the revealed flag nor the index, and a resize changes the       *)
(* scroll offset only by cutting it down to the new maxScroll.             *)
(* (Each conjunct reads "event => effect", written effect \/ ~event.)      *)
(***************************************************************************)
NavKeys == {RuneKey(r, FALSE) : r \in {108, 76, 104, 72}}

ScrollKeys == {Key("KeyUp"), Key("KeyDown")}
                \cup {RuneKey(r, FALSE) : r \in {107, 75, 106, 74}}

C4_NavigationResets ==
    [][/\ \A k \in NavKeys :
            \/ index' = index
            \/ showAnswers' = FALSE /\ scrollOffset' = 0
            \/ ~KeyPress(k)
       /\ \A k \in ScrollKeys :
            \/ UNCHANGED <<showAnswers, index>>
            \/ ~KeyPress(k)
       /\ \A w \in Widths, h \in Heights :
            \/ width' # w \/ height' # h
            \/ /\ UNCHANGED <<showAnswers, index>>
               /\ \/ scrollOffset' = scrollOffset
                  \/ /\ InReview /\ index < Len(questions)
                     /\ LET newMax == cardMaxScroll(questions[index + 1],
                                                    showAnswers, w, h)
                        IN  scrollOffset > newMax /\ scrollOffset' = newMax
            \/ ~WindowSize(w, h)
      ]_vars

\* the second card, reached by l from the first and shown on 6 rows:
\* answers hidden, scroll 0
C4_Witness ==
    InReview /\ index = 1 /\ ~showAnswers /\ scrollOffset = 0 /\ height = 6

(***************************************************************************)
(* C5.  The card index stays in [0, len(questions)].  In card review, l/L  *)
(* at index < len adds exactly one (from len-1 it reaches len and the next *)
(* frame is the exhausted-session message), h/H at index > 0 subtracts     *)
(* exactly one, and l/L at index = len and h/H at index = 0 change         *)
(* nothing.                                                                *)
(* View draws the stored error before anything else and Update never       *)
(* clears it, so after a failed load and a successful one the frame at     *)
(* index = len is the error message.                                       *)
(***************************************************************************)
C5_IndexBounds ==
    /\ [](index >= 0 /\ index <= Len(questions))
    /\ [][/\ \A k \in {RuneKey(108, FALSE), RuneKey(76, FALSE)} :
                (InReview /\ KeyPress(k))
                    => IF index < Len(questions)
                       THEN /\ index' = index + 1
                            /\ index = Len(questions) - 1
                                    => ViewBranch(M)' = "no more questions"
                       ELSE UNCHANGED vars
          /\ \A k \in {RuneKey(104, FALSE), RuneKey(72, FALSE)} :
                (InReview /\ KeyPress(k))
                    => IF index > 0 THEN index' = index - 1
                       ELSE UNCHANGED vars
         ]_vars

(***************************************************************************)
(* C6.  In card review with a card on screen, Enter flips the revealed     *)
(* flag, sets scroll to 0 and leaves the index and the questions alone;    *)
(* in the exhausted state Enter changes nothing.                           *)
(***************************************************************************)
C6_EnterFlips ==
    [][(InReview /\ KeyPress(Key("KeyEnter")))
        => IF index < Len(questions)
           THEN /\ showAnswers' = ~showAnswers
                /\ scrollOffset' = 0
                /\ UNCHANGED <<index, questions>>
           ELSE UNCHANGED vars
      ]_vars

\* answers revealed by Enter on a terminal where the card scrolls
C6_Witness ==
    /\ InReview /\ index < Len(questions) /\ showAnswers /\ scrollOffset = 0
    /\ height = 6

(***************************************************************************)
(* C7.  From every reachable state each quit key (q, ctrl+c) can be        *)
(* pressed and ends the program on that event, and no other event ends it. *)
(***************************************************************************)
QuitKeys == {RuneKey(113, FALSE), Key("KeyCtrlC")}

C7_OnlyQuitEnds ==
    /\ [](running => \A k \in QuitKeys : ENABLED KeyPress(k))
    /\ [][/\ \A k \in Keys :
                \/ running' <=> k \notin QuitKeys
                \/ ~KeyPress(k)
          /\ \A w \in Widths, h \in Heights :
                running' \/ ~WindowSize(w, h)
         ]_vars

\* the program was ended while the search box held a query
C7_Witness == ~running /\ InSearch /\ groupQuery # <<>>

(***************************************************************************)
(* C8.  While the search box is active, character input appends the typed  *)
(* characters to the query, backspace removes exactly the last code point  *)
(* (nothing when the query is empty), and every key other than character   *)
(* input, backspace, Enter and Escape changes neither the query nor the    *)
(* selection.                                                              *)
(***************************************************************************)
TypedRunes == {71, 111, 233, 113}

RuneMessages == {k \in Keys : k.Type = "KeyRunes"}

BackspaceKeys == {Key("KeyBackspace"), Key("KeyCtrlH")}

IgnoredInSearch == {Key("KeyUp"), Key("KeyDown"), Key("KeyTab"), Key("KeyCtrlC")}

\* backspace and the ignored keys, as C8 states them
C8_BackspaceAndOthers ==
    /\ \A k \in BackspaceKeys :
            (InSearch /\ KeyPress(k))
                => IF groupQuery = <<>> THEN groupQuery' = groupQuery
                   ELSE \E r \in TypedRunes :
                            groupQuery = groupQuery' \o EncodeRune(r)
    /\ \A k \in IgnoredInSearch :
            (InSearch /\ KeyPress(k)) => M' = M

\* C8 as stated: every character typed is appended
C8_Original ==
    [][/\ \A k \in RuneMessages :
            (InSearch /\ KeyPress(k))
                => groupQuery' = groupQuery \o EncodeRunes(k.Runes)
       /\ C8_BackspaceAndOthers
      ]_vars

\* C8 amended: every character typed except the quit key q is appended
C8_SearchEditing ==
    [][/\ \A k \in RuneMessages \ QuitKeys :
            (InSearch /\ KeyPress(k))
                => groupQuery' = groupQuery \o EncodeRunes(k.Runes) /\ running'
       /\ C8_BackspaceAndOthers
      ]_vars

\* G and e-acute were typed, then backspace took the two bytes of e-acute
C8_Witness == InSearch /\ groupQuery = <<71>> /\ running

(***************************************************************************)
(* C9.  In the browser, / with search inactive activates search and        *)
(* empties the query; Enter or Escape while search is active deactivate    *)
(* it, keep the query, load nothing and change neither the mode nor the    *)
(* questions.                                                              *)
(***************************************************************************)
C9_SearchToggle ==
    [][/\ (InBrowser /\ ~groupSearch /\ KeyPress(RuneKey(47, FALSE)))
            => groupSearch' /\ groupQuery' = <<>>
       /\ \A k \in {Key("KeyEnter"), Key("KeyEsc")} :
            (InSearch /\ KeyPress(k))
                => /\ ~groupSearch'
                   /\ UNCHANGED <<groupQuery, mode, questions, err, index>>
      ]_vars

\* search was left with a query in the box
C9_Witness == InBrowser /\ ~groupSearch /\ groupQuery # <<>> /\ err = NoErr

(***************************************************************************)
(* C10.  A failed load on Enter in the browser records the error and       *)
(* leaves mode, questions, index, revealed flag, scroll, selection, query  *)
(* and search flag as they were; the next frame and every frame after it   *)
(* is the error message.                                                   *)
(***************************************************************************)
C10_LoadFailure ==
    /\ [][(InBrowser /\ ~groupSearch /\ KeyPress(Key("KeyEnter")) /\ err' # err)
            => /\ err' # NoErr
               /\ UNCHANGED <<mode, questions, index, showAnswers, scrollOffset,
                              groupIndex, groupQuery, groupSearch>>
               /\ ViewBranch(M)' = "error"
         ]_vars
    /\ [][err # NoErr => err' # NoErr]_vars
    /\ [](err # NoErr => ViewBranch(M) = "error")

\* a load has failed with the second row selected under a query
C10_Witness ==
    /\ err = LoadErr /\ InBrowser /\ questions = <<>>
    /\ groupIndex = 1 /\ groupQuery = <<71>>

(***************************************************************************)
(* C11.  Once a load error is stored only quit remains functional: every   *)
(* key other than the quit keys leaves the session state unchanged, so the *)
(* mode stays category-browser and the selection, query, search flag and   *)
(* question set stay as they were when the load failed.                    *)
(* Update never looks at m.err: after the failure the keys of the browser  *)
(* still move the selection, edit the query and load a category.           *)
(***************************************************************************)
C11_OnlyQuitAfterError ==
    [][\A k \in Keys :
            \/ err = NoErr
            \/ UNCHANGED <<mode, questions, index, showAnswers, scrollOffset,
                           groups, groupIndex, groupQuery, groupSearch, err>>
            \/ ~KeyPress(k)
      ]_vars

(***************************************************************************)
(* C12.  Resizing is idempotent: from every reachable state and for every  *)
(* terminal size (w, h), the resize event (w, h) applied twice leaves the  *)
(* same state, and the same painted frame, as the event applied once.      *)
(***************************************************************************)
C12_ResizeIdempotent ==
    \A w \in Widths, h \in Heights :
        LET once  == finalClamp(updateWindowSize(M, w, h))
            twice == finalClamp(updateWindowSize(once, w, h))
        IN  twice = once /\ View(twice) = View(once)

\* a card scrolled further than the next size allows: the resize clamps
C12_Witness ==
    /\ mode = modeCards /\ index < Len(questions) /\ running
    /\ \E w \in Widths, h \in Heights :
            finalClamp(updateWindowSize(M, w, h)).scrollOffset < scrollOffset

(***************************************************************************)
(* C13.  No operation fails: in every reachable state, for every key and   *)
(* every resize, and for the frame of the state and of the state resized   *)
(* to a size at or below zero or below the layout minimums, no index is    *)
(* out of range, every slice has 0 <= start <= end <= length and no        *)
(* padding count is negative.                                              *)
(***************************************************************************)
ExtraWidths == {-1, 10}

ExtraHeights == {-1, 1, 3}

C13_NoOperationFails ==
    /\ \A msg \in Keys : KeyFaults(M, msg) = {}
    /\ \A w \in Widths \cup ExtraWidths, h \in Heights \cup ExtraHeights :
            ResizeFaults(M, w, h) = {}
    /\ ViewFaults(M) = {}
    /\ \A w \in ExtraWidths, h \in ExtraHeights :
            ViewFaults(finalClamp(updateWindowSize(M, w, h))) = {}

\* past the last card, on a sized terminal: questions[index] would be out
\* of range, and the frame is shorter than the terminal
C13_Witness ==
    /\ mode = modeCards /\ index = Len(questions) /\ err = NoErr
    /\ height > 0 /\ running

(***************************************************************************)
(* The layout functions called on their own: a behaviour of SpecLayout is  *)
(* one call, its arguments drawn from bounded sets, and its return.        *)
(***************************************************************************)
\* the longest text, in tokens
MaxTokens == 5

\* the longest query, in tokens
MaxQueryLen == 3

\* the longest group list
MaxGroups == 8

\* the longest code of a fenced block, in tokens
MaxCode == 4

RECURSIVE TokenTexts(_, _)
\* the texts of at most n tokens
TokenTexts(tokens, n) ==
    IF n = 0 THEN {<<>>}
    ELSE LET shorter == TokenTexts(tokens, n - 1)
         IN  shorter \cup {t \o tok : t \in shorter, tok \in tokens}

\* "a", "bcdef", "é", " ", "\n"
WrapTokens == {<<97>>, <<98, 99, 100, 101, 102>>, <<195, 169>>, <<32>>, <<10>>}

WrapWidths == {1, 2, 3, 5}

\* "a", " ", "\n", "```"
AnswerTokens == {<<97>>, <<32>>, <<10>>, fence}

AnswerWidths == {1, 3, 6}

\* "a", "é", "\t", "\n"
CodeTokens == {<<97>>, <<195, 169>>, <<9>>, <<10>>}

\* the answer that is one fenced block holding code
CodeBlock(code) == fence \o <<10>> \o code \o <<10>> \o fence

\* "", "a", "a bcd"
QuestionTexts == {<<>>, <<97>>, <<97, 32, 98, 99, 100>>}

\* "a", "b c", "a\n\nb", "```\na\n```"
AnswerSamples ==
    {<<97>>, <<98, 32, 99>>, <<97, 10, 10, 98>>,
     <<96, 96, 96, 10, 97, 10, 96, 96, 96>>}

\* the answer lists of at most two answers
AnswerLists ==
    {<<>>} \cup {<<a>> : a \in AnswerSamples}
           \cup {<<a, b>> : a, b \in AnswerSamples}

Cards ==
    Range(DB) \cup {[ID |-> 0, Type |-> <<>>, Text |-> t, Answers |-> as] :
                        t \in QuestionTexts, as \in AnswerLists}

CardWidths == {6, 60}

\* "g", "G", "e", "n", " "
QueryTokens == {<<103>>, <<71>>, <<101>>, <<110>>, <<32>>}

\* the groups of the store, and the groups "general" (3) and "" (2)
GroupLists ==
    {<<>>, loadTypeGroups(DB),
     <<[Type |-> tGeneral, Count |-> 3], [Type |-> <<>>, Count |-> 2]>>}

\* n groups "g1" .. "gn" in label order, group i holding i cards
GroupsOf(n) == [i \in 1..n |-> [Type |-> <<103>> \o Itoa(i), Count |-> i]]

ListHeights == {0, 5, 10, 11, 12}

\* the calls of each function, for texts, queries and lists up to n
WrapCalls(n) ==
    {[fn |-> "wrapLines", text |-> t, width |-> w] :
        t \in TokenTexts(WrapTokens, n), w \in WrapWidths}

FormatCalls(n) ==
    {[fn |-> "formatAnswerLines", answer |-> t, width |-> w] :
        t \in TokenTexts(AnswerTokens, n), w \in AnswerWidths}

CodeCalls(n) ==
    {[fn |-> "formatAnswerLines", answer |-> CodeBlock(c), width |-> w] :
        c \in TokenTexts(CodeTokens, n), w \in AnswerWidths}

BuildCalls ==
    {[fn |-> "buildCardContentLines", q |-> q, showAnswers |-> b, width |-> w] :
        q \in Cards, b \in BOOLEAN, w \in CardWidths}

FilterCalls(n) ==
    {[fn |-> "filterGroups", groups |-> gs, query |-> qy] :
        gs \in GroupLists, qy \in TokenTexts(QueryTokens, n)}

ListCalls(n) ==
    {[fn |-> "renderGroupList", groups |-> GroupsOf(n), selected |-> sel,
      height |-> h, query |-> qy, searching |-> b] :
        sel \in 0..(n - 1), h \in ListHeights, qy \in {<<>>, <<103>>}, b \in BOOLEAN}

\* no program runs while a function is called on its own
InitLayout ==
    /\ call \in WrapCalls(MaxTokens) \cup FormatCalls(MaxTokens) \cup BuildCalls
                    \cup CodeCalls(MaxCode)
                    \cup FilterCalls(MaxQueryLen)
                    \cup UNION {ListCalls(n) : n \in 1..MaxGroups}
    /\ ret = NoReturn
    /\ mode = modeGroup /\ questions = <<>> /\ index = 0 /\ showAnswers = FALSE
    /\ scrollOffset = 0 /\ width = 64 /\ height = 0 /\ groups = <<>>
    /\ groupIndex = 0 /\ groupQuery = <<>> /\ groupSearch = FALSE /\ err = NoErr
    /\ running = FALSE
    /\ schema = Migrated /\ runner = NoRunner /\ journal = <<>>

Return(v) ==
    /\ ret = NoReturn
    /\ ret' = [done |-> TRUE, value |-> v]
    /\ UNCHANGED <<mode, questions, index, showAnswers, scrollOffset, width, height,
                   groups, groupIndex, groupQuery, groupSearch, err, running, call,
                   schema, runner, journal>>

CallWrapLines ==
    call.fn = "wrapLines" /\ Return(wrapLines(call.text, call.width))

CallFormatAnswerLines ==
    call.fn = "formatAnswerLines" /\ Return(formatAnswerLines(call.answer, call.width))

CallBuildCardContentLines ==
    /\ call.fn = "buildCardContentLines"
    /\ Return(buildCardContentLines(call.q, call.showAnswers, call.width))

CallFilterGroups ==
    call.fn = "filterGroups" /\ Return(filterGroups(call.groups, call.query))

CallRenderGroupList ==
    /\ call.fn = "renderGroupList"
    /\ Return(renderGroupList(call.groups, call.selected, 64, call.height,
                              call.query, call.searching))

NextLayout ==
    \/ CallWrapLines
    \/ CallFormatAnswerLines
    \/ CallBuildCardContentLines
    \/ CallFilterGroups
    \/ CallRenderGroupList

SpecLayout == InitLayout /\ [][NextLayout]_vars

\* the call of fn has returned
Returned(fn) == call.fn = fn /\ ret.done

(***************************************************************************)
(* Vocabulary of the properties of the layout functions.                   *)
(***************************************************************************)
sQuestion == <<81, 85, 69, 83, 84, 73, 79, 78>>                     \* "QUESTION"

sAnswers == <<65, 78, 83, 87, 69, 82, 83>>                          \* "ANSWERS"

\* "(no answers stored)"
sNoAnswers ==
    <<40, 110, 111, 32, 97, 110, 115, 119, 101, 114, 115, 32, 115, 116, 111,
      114, 101, 100, 41>>

\* the formatted lines of each answer, in order
EachFormatted(answers, w) ==
    Concat([i \in 1..Len(answers) |-> formatAnswerLines(answers[i], w)])

\* the content lines the contract of buildContentLines gives
ContractLines(q, revealed, w) ==
    <<sQuestion>> \o wrapLines(q.Text, w) \o << <<>> >>
        \o (IF revealed
            THEN <<sAnswers>> \o EachFormatted(q.Answers, w) \o << <<>> >>
            ELSE <<>>)

(***************************************************************************)
(* C14.  As stated: for every question, also one without answers, every    *)
(* revealed flag and every width, buildContentLines returns ["QUESTION"] + *)
(* wrap(text, width) + [""], followed when revealed by ["ANSWERS"] + the   *)
(* formatted lines of each answer in order + [""].                         *)
(***************************************************************************)
C14_Original ==
    Returned("buildCardContentLines")
        => ret.value = ContractLines(call.q, call.showAnswers, call.width)

(***************************************************************************)
(* C14, amended.  buildContentLines returns the lines of the contract,     *)
(* except that a revealed question without answers shows the one line      *)
(* "(no answers stored)" between "ANSWERS" and the closing blank line.     *)
(***************************************************************************)
C14_BuildContentLines ==
    Returned("buildCardContentLines")
        => ret.value =
            IF call.showAnswers /\ call.q.Answers = <<>>
            THEN <<sQuestion>> \o wrapLines(call.q.Text, call.width) \o << <<>> >>
                    \o <<sAnswers, sNoAnswers, <<>> >>
            ELSE ContractLines(call.q, call.showAnswers, call.width)

\* a revealed question without answers has been laid out
C14_Witness ==
    /\ Returned("buildCardContentLines")
    /\ call.showAnswers /\ call.q.Answers = <<>> /\ call.q.Text # <<>>

\* the lines of the answers block of returned content lines: those after
\* "ANSWERS", without the closing blank line
AnswersBlock(q, w, lines) ==
    SubSeq(lines, Len(wrapLines(q.Text, w)) + 4, Len(lines) - 1)

\* "Goroutines" and "Channels" behind the prefix p
sGoroutines(p) == p \o <<71, 111, 114, 111, 117, 116, 105, 110, 101, 115>>

sChannels(p) == p \o <<67, 104, 97, 110, 110, 101, 108, 115>>

(***************************************************************************)
(* C15.  As stated: in the answers block of a revealed question with       *)
(* several answers only the first line of the first answer carries the     *)
(* bullet "- "; for the answers "Goroutines" and "Channels" at width 60    *)
(* the block is "- Goroutines", "  Channels".                              *)
(***************************************************************************)
C15_Original ==
    (Returned("buildCardContentLines") /\ call.showAnswers /\ Len(call.q.Answers) >= 2)
        => LET block == AnswersBlock(call.q, call.width, ret.value)
           IN  /\ \A k \in 2..Len(block) : ~HasPrefix(block[k], firstPrefix)
               /\ (call.q = DB[1] /\ call.width = 60)
                    => block = <<sGoroutines(firstPrefix), sChannels(nextPrefix)>>

(***************************************************************************)
(* C15, amended.  In the answers block of a revealed question with several *)
(* answers every answer is formatted on its own: the first line of each    *)
(* answer carries the bullet "- " and no other line does; for the answers  *)
(* "Goroutines" and "Channels" at width 60 the block is "- Goroutines",    *)
(* "- Channels".                                                           *)
(***************************************************************************)
C15_BulletPerAnswer ==
    (Returned("buildCardContentLines") /\ call.showAnswers /\ Len(call.q.Answers) >= 2)
        => LET block  == AnswersBlock(call.q, call.width, ret.value)
               ans    == call.q.Answers
               count  == [i \in 1..Len(ans) |->
                            Len(formatAnswerLines(ans[i], call.width))]
               off    == [i \in 1..Len(ans) |->
                            Len(EachFormatted(SubSeq(ans, 1, i - 1), call.width))]
               firsts == {off[i] + 1 : i \in {j \in 1..Len(ans) : count[j] > 0}}
           IN  /\ \A k \in 1..Len(block) :
                    HasPrefix(block[k], firstPrefix) <=> k \in firsts
               /\ (call.q = DB[1] /\ call.width = 60)
                    => block = <<sGoroutines(firstPrefix), sChannels(firstPrefix)>>

\* the card with the answers "Goroutines" and "Channels", revealed at 60
C15_Witness ==
    /\ Returned("buildCardContentLines") /\ call.showAnswers
    /\ call.q = DB[1] /\ call.width = 60

(***************************************************************************)
(* C16.  As stated: for every non-empty answer and every width, the first  *)
(* line format emits begins with "- " and every later line begins with     *)
(* two spaces.                                                             *)
(***************************************************************************)
C16_Original ==
    (Returned("formatAnswerLines") /\ call.answer # <<>>)
        => /\ Len(ret.value) >= 1 => HasPrefix(ret.value[1], firstPrefix)
           /\ \A k \in 2..Len(ret.value) : HasPrefix(ret.value[k], nextPrefix)

(***************************************************************************)
(* C16, amended.  For every non-empty answer and every width, the first    *)
(* line format emits begins with "- ", and every later line either begins  *)
(* with two spaces or is the empty line emitted for a blank line of the    *)
(* answer.                                                                 *)
(***************************************************************************)
C16_FormatPrefixes ==
    (Returned("formatAnswerLines") /\ call.answer # <<>>)
        => /\ Len(ret.value) >= 1 => HasPrefix(ret.value[1], firstPrefix)
           /\ \A k \in 2..Len(ret.value) :
                ret.value[k] = <<>> \/ HasPrefix(ret.value[k], nextPrefix)

\* an answer with content, a blank line and content again
C16_Witness ==
    /\ Returned("formatAnswerLines") /\ Len(ret.value) >= 3
    /\ ret.value[2] = <<>> /\ HasPrefix(ret.value[3], nextPrefix)

\* the words of the lines, read in order
WordsOf(lines) == Concat([k \in 1..Len(lines) |-> Fields(lines[k])])

(***************************************************************************)
(* C17.  For every text and every width >= 1, wrap returns at least one    *)
(* line, exactly one empty line when the trimmed text is empty; the words  *)
(* of the lines read in order are the whitespace-separated words of the    *)
(* text, joined by single spaces; a word joins the current line exactly    *)
(* when currentLineLength + 1 + wordLength <= width (a line of several     *)
(* words fits the width, and the first word of the next line did not fit   *)
(* on the line before it); so a line is longer than the width only if it   *)
(* is a single word.  Lengths are counted as the program counts them, in   *)
(* bytes.                                                                  *)
(***************************************************************************)
C17_Wrap ==
    (Returned("wrapLines") /\ call.width >= 1)
        => LET lines == ret.value
               words == [k \in 1..Len(lines) |-> Fields(lines[k])]
           IN  /\ Len(lines) >= 1
               /\ TrimSpace(call.text) = <<>> => lines = << <<>> >>
               /\ WordsOf(lines) = Fields(call.text)
               /\ \A k \in 1..Len(lines) :
                    /\ lines[k] = Join(words[k], 32)
                    /\ Len(words[k]) >= 2 => Len(lines[k]) <= call.width
                    /\ k >= 2 => Len(lines[k - 1]) + 1 + Len(words[k][1]) > call.width
                    /\ Len(lines[k]) <= call.width \/ Len(words[k]) = 1

\* a text wrapped into several lines, one of them a word longer than the
\* width and one of them holding two words
C17_Witness ==
    /\ Returned("wrapLines") /\ Len(ret.value) >= 2
    /\ \E k \in 1..Len(ret.value) : Len(ret.value[k]) > call.width
    /\ \E k \in 1..Len(ret.value) : Len(Fields(ret.value[k])) >= 2

\* the groups whose label contains needle, letter case aside, in order
Matching(gs, needle) ==
    SelectSeq(gs, LAMBDA g : Contains(ToLower(g.Type), ToLower(needle)))

\* the groups "general" (3) and "" (2), and the query "gen"
ScenarioGroups == <<[Type |-> tGeneral, Count |-> 3], [Type |-> <<>>, Count |-> 2]>>

sGen == <<103, 101, 110>>

(***************************************************************************)
(* C18.  As stated: for every group list and every query the filtered view *)
(* is exactly the groups whose label contains the query as a               *)
(* case-insensitive substring, in input order; the empty query returns     *)
(* the list unchanged; the groups "general" (3), "" (2) filtered by "gen"  *)
(* are "general" (3).                                                      *)
(***************************************************************************)
C18_Original ==
    Returned("filterGroups")
        => /\ ret.value = Matching(call.groups, call.query)
           /\ call.query = <<>> => ret.value = call.groups
           /\ (call.groups = ScenarioGroups /\ call.query = sGen)
                => ret.value = <<[Type |-> tGeneral, Count |-> 3]>>

(***************************************************************************)
(* C18, amended.  The filtered view is exactly the groups whose label      *)
(* contains, as a case-insensitive substring, the query with its leading   *)
(* and trailing whitespace removed, in input order; a query that is empty  *)
(* or all whitespace returns the list unchanged; the groups "general"      *)
(* (3), "" (2) filtered by "gen" are "general" (3).                        *)
(***************************************************************************)
C18_FilterGroups ==
    Returned("filterGroups")
        => /\ ret.value = Matching(call.groups, TrimSpace(call.query))
           /\ TrimSpace(call.query) = <<>> => ret.value = call.groups
           /\ (call.groups = ScenarioGroups /\ call.query = sGen)
                => ret.value = <<[Type |-> tGeneral, Count |-> 3]>>

\* a query with a space before it that keeps some groups and drops others
C18_Witness ==
    /\ Returned("filterGroups")
    /\ call.query # TrimSpace(call.query) /\ TrimSpace(call.query) # <<>>
    /\ ret.value # <<>> /\ ret.value # call.groups

\* the rows of a rendered group list: the lines between the heading (title
\* and blank line, then the search line and a blank line when it is shown)
\* and the blank line and footer that end the list
ListRows(text, query, searching) ==
    LET lines == Split(text, 10)
        head  == IF searching \/ TrimSpace(query) # <<>> THEN 4 ELSE 2
    IN  SubSeq(lines, head + 1, Len(lines) - 2)

\* "<label or (none)> - <count>"
RowText(g) ==
    (IF TrimSpace(g.Type) = <<>> THEN sNone ELSE TrimSpace(g.Type))
        \o sDash \o Itoa(g.Count)

(***************************************************************************)
(* C19.  For every non-empty filtered list, every selected index in        *)
(* [0, len(filtered)-1] and every terminal height, the group list shows    *)
(* the rows of a contiguous window [start, end) of the filtered list, at   *)
(* most max(6, height-4) of them, the selected row among them, with        *)
(* start = 0 when selected < window size and start = selected - window     *)
(* size + 1 otherwise; exactly the selected row carries the "> " marker.   *)
(***************************************************************************)
C19_GroupWindow ==
    Returned("renderGroupList")
        => LET filtered == Matching(call.groups, TrimSpace(call.query))
               rows     == ListRows(ret.value, call.query, call.searching)
               size     == max(6, call.height - 4)
               start    == IF call.selected < size THEN 0
                           ELSE call.selected - size + 1
           IN  (filtered # <<>> /\ call.selected \in 0..(Len(filtered) - 1))
                => /\ Len(rows) <= size
                   /\ Len(rows) = (IF start + size > Len(filtered)
                                   THEN Len(filtered) ELSE start + size) - start
                   /\ call.selected \in start..(start + Len(rows) - 1)
                   /\ \A k \in 1..Len(rows) :
                        rows[k] = IF start + k - 1 = call.selected
                                  THEN orange \o sSelected
                                            \o RowText(filtered[start + k]) \o reset
                                  ELSE sUnselected \o RowText(filtered[start + k])

\* a list longer than the window with the selection past the first window
C19_Witness ==
    /\ Returned("renderGroupList")
    /\ call.selected >= max(6, call.height - 4)
    /\ Len(ListRows(ret.value, call.query, call.searching)) = max(6, call.height - 4)

\* the rows of a text: the lines between its newlines
Rows(text) == Split(text, 10)

\* a row of spaces
IsBlankRow(row) == row # <<>> /\ \A i \in 1..Len(row) : row[i] = 32

(***************************************************************************)
(* C20.  In every reachable state with terminal height h > 0, whatever the *)
(* frame shows (card, end of the deck, browser or error), the frame        *)
(* returned for painting has exactly h rows: the first rows of the         *)
(* content, cut after h rows when the content is longer, followed by blank *)
(* rows when it is shorter.                                                *)
(***************************************************************************)
C20_FrameHeight ==
    height > 0
        => LET content == Rows(viewText(M))
               frame   == Rows(View(M))
           IN  /\ Len(frame) = height
               /\ \A k \in 1..height :
                    IF k <= Len(content) THEN frame[k] = content[k]
                    ELSE IsBlankRow(frame[k])

\* a card whose content is longer than the terminal is high
C20_Witness ==
    /\ mode = modeCards /\ index < Len(questions) /\ err = NoErr
    /\ height > 0 /\ Len(Rows(viewText(M))) > height

(***************************************************************************)
(* C23.  The mode only moves from the browser to card review: no event     *)
(* taken in card review leaves it, and the question set changes only in    *)
(* the step of an Enter press in the browser, search inactive, whose load  *)
(* succeeds and which switches to card review.                             *)
(***************************************************************************)
C23_ModeOneWay ==
    [][/\ (mode = modeCards => mode' = modeCards)
       /\ \/ questions' = questions
          \/ /\ mode = modeGroup /\ ~groupSearch /\ mode' = modeCards
             /\ KeyPress(Key("KeyEnter"))
      ]_vars

\* card review entered from the browser, and events taken since: every
\* session that starts in card review has no groups
C23_Witness ==
    /\ mode = modeCards /\ groups # <<>> /\ questions # <<>>
    /\ index > 0 /\ running

\* the answer is one fenced block: an opening fence line, code without a
\* backquote, a closing fence line
IsCodeBlock(answer) ==
    /\ Len(answer) >= 8
    /\ SubSeq(answer, 1, 4) = fence \o <<10>>
    /\ SubSeq(answer, Len(answer) - 3, Len(answer)) = <<10>> \o fence
    /\ \A i \in 5..(Len(answer) - 4) : answer[i] # 96

\* the code lines of such an answer
CodeLinesOf(answer) == Split(SubSeq(answer, 5, Len(answer) - 4), 10)

RECURSIVE TabStops(_, _)
\* the first n runes of a code line with every tab replaced by spaces up to
\* the next 4-column stop, the column counted from the start of the line
TabStops(rs, n) ==
    IF n = 0 THEN <<>>
    ELSE LET before == TabStops(rs, n - 1)
         IN  IF rs[n] = 9 THEN before \o Repeat(32, 4 - (Len(before) % 4))
             ELSE Append(before, rs[n])

\* a code line with its tabs expanded
TabStopsLine(line) ==
    LET rs == DecodeRunes(line) IN EncodeRunes(TabStops(rs, Len(rs)))

\* what the closing fence emits for code lines whose tabs are expanded line
\* by line
BlockLines(codeLines) ==
    LET code        == Join([i \in 1..Len(codeLines) |-> TabStopsLine(codeLines[i])], 10)
        highlighted == highlightCode(code, <<>>)
    IN  emitCode([out |-> <<>>, inCode |-> TRUE, used |-> FALSE,
                  codeLang |-> <<>>, codeLines |-> codeLines],
                 Split(TrimSuffix(highlighted, <<10>>), 10)).out

(***************************************************************************)
(* C22.  When a fenced code block is closed, every tab of every line of    *)
(* the block is replaced by spaces up to the next 4-column stop, the       *)
(* column counted from the start of the code line that holds the tab.      *)
(* expandTabs is called on the joined block and its column counter is      *)
(* never reset at a newline (main.go 917-937), so a tab on a later line    *)
(* is expanded from a column that counts the lines before it.              *)
(***************************************************************************)
C22_TabStopsPerLine ==
    (Returned("formatAnswerLines") /\ IsCodeBlock(call.answer))
        => ret.value = BlockLines(CodeLinesOf(call.answer))

\* the entries of the journal where a script was executed: tx.Exec(body)
\* returned, with or without an error
Executions == {i \in DOMAIN journal : journal[i].op \in {"exec", "fail"}}

\* the entries where the transaction of a script was committed
Commits == {i \in DOMAIN journal : journal[i].op = "commit"}

\* the entries where a script failed and its transaction was rolled back
Failures == {i \in DOMAIN journal : journal[i].op \in {"fail", "rollback"}}

(***************************************************************************)
(* C21.  Across the starts of the program: the scripts a start executes,   *)
(* and the scripts committed over all starts, come in ascending order of   *)
(* file name; a script whose version is recorded is never executed again;  *)
(* the file holds the effects of exactly the scripts whose versions it     *)
(* records; a script that fails is rolled back and not recorded, and it is *)
(* the last thing its start does to the database.                          *)
(***************************************************************************)
C21_Migrations ==
    /\ \A i, j \in Executions :
            (i < j /\ journal[i].start = journal[j].start)
                => LessBytes(journal[i].name, journal[j].name)
    /\ \A i, j \in Commits : i < j => LessBytes(journal[i].name, journal[j].name)
    /\ schema.versions = {journal[i].name : i \in Commits}
    /\ \A i \in Commits, j \in Executions : i < j => journal[i].name # journal[j].name
    /\ schema.effects = schema.versions
    /\ \A i \in Failures :
            /\ \A j \in DOMAIN journal : j > i => journal[j].start > journal[i].start
            /\ i = Len(journal) => journal[i].name \notin schema.versions \cup schema.effects

\* a later start has skipped the recorded scripts, run again the script
\* that failed in an earlier start, and applied every script
C21_Witness ==
    /\ runner.pc = "done" /\ runner.start > 1
    /\ schema.versions = Scripts
    /\ \E i \in Failures, j \in Commits :
            /\ journal[i].op = "fail" /\ journal[j].name = journal[i].name
            /\ journal[j].start > journal[i].start
    /\ \E i, j \in Commits : journal[i].start # journal[j].start

====
